---------------------------- MODULE Spec2Model ----------------------------
(***************************************************************************)
(* A model of sigye, a terminal clock: the cyclic setting enumerations and *)
(* colour arithmetic of sigye-core, the FIGlet parser and glyph compositor *)
(* of sigye-fonts.  Every component has its own specification over the     *)
(* shared variables; the variables a specification does not use stay at    *)
(* their idle values.                                                      *)
(***************************************************************************)
EXTENDS Integers, Sequences, FiniteSets, TLC

VARIABLES
    color_theme,       \* App.color_theme
    animation_style,   \* App.animation_style
    background_style,  \* App.background_style
    animation_speed,   \* App.animation_speed
    elapsed_ms,        \* the elapsed_ms snapshot of the current frame
    colon_visible,     \* is_colon_visible(elapsed_ms) as computed for the frame
    rgb_in,            \* the (r, g, b) handed to rgb_to_hsl
    rgb_out,           \* hsl_to_rgb(rgb_to_hsl(rgb_in)), or NoResult before the call
    input,             \* how the font file was put together (prefix, hardblank, fields, body)
    content,           \* the lines of the font file handed to the parser
    header_result,     \* parse_header(first line), or NoResult before the call
    flf_result,        \* parse_flf(name, content), or NoResult before the call
    font,              \* the Font handed to render_text
    text,              \* the text handed to render_text
    rendered,          \* render_text(font, text), or NoResult before the call
    registry,          \* FontRegistry.fonts
    aborted,           \* the process has panicked while loading fonts
    lookup,            \* the last get_or_default call and its result, or NoResult
    reactive_in,       \* the colour and flash intensity handed to apply_reactive
    reactive_out,      \* apply_reactive's result, or NoResult before the call
    pos_in,            \* the theme, x, y, width, height of a color_at_position call
    pos_out,           \* color_at_position's result, or NoResult before the call
    bg,                \* BackgroundState
    bg_frame,          \* the last BackgroundState::render call and what it drew
    app,               \* the other fields of App
    run,               \* where App::run stands and the event it read last
    frame              \* what the last App::render call drew

cycleVars  == <<color_theme, animation_style, background_style, animation_speed>>
clockVars  == <<elapsed_ms, colon_visible>>
colorVars  == <<rgb_in, rgb_out>>
parseVars  == <<input, content, header_result, flf_result>>
renderVars == <<font, text, rendered>>
registryVars == <<registry, aborted, lookup>>
reactiveVars == <<reactive_in, reactive_out>>
positionVars == <<pos_in, pos_out>>
backgroundVars == <<bg, bg_frame>>
appVars == <<app, run, frame>>
vars == <<cycleVars, clockVars, colorVars, parseVars, renderVars,
          registryVars, reactiveVars, positionVars, backgroundVars, appVars>>

\* The value of a result variable before its call, and after it.
NoResult == [tag |-> "None"]

Some(v) == [tag |-> "Some", val |-> v]

(***************************************************************************)
(* Idle values of each component's variables.                              *)
(***************************************************************************)
CycleIdle ==
    /\ color_theme = "Cyan"
    /\ animation_style = "None"
    /\ background_style = "None"
    /\ animation_speed = "Medium"

ClockIdle == elapsed_ms = 0 /\ colon_visible = TRUE

ColorIdle == rgb_in = <<0, 0, 0>> /\ rgb_out = NoResult

\* The description of an empty font file.
EmptyInput ==
    [empty |-> TRUE, prefix |-> <<>>, hb |-> <<>>, sep |-> <<>>,
     fields |-> <<>>, nbody |-> 0]

ParseIdle ==
    /\ input = EmptyInput
    /\ content = <<>>
    /\ header_result = NoResult
    /\ flf_result = NoResult

RenderIdle ==
    /\ font = [name |-> "", height |-> 0, chars |-> <<>>]
    /\ text = <<>>
    /\ rendered = NoResult

\* No registry built yet.
RegistryIdle == registry = <<>> /\ aborted = FALSE /\ lookup = NoResult

\* ratatui's Color: Color::Rgb(r, g, b) or a named colour.
Rgb(r, g, b) == [name |-> "Rgb", rgb |-> <<r, g, b>>]

Named(name) == [name |-> name, rgb |-> <<>>]

ReactiveIdle ==
    /\ reactive_in = [color |-> Named("Reset"), flash_intensity |-> [s |-> 0, m |-> 0, e |-> 0]]
    /\ reactive_out = NoResult

PositionIdle ==
    /\ pos_in = [theme |-> "Cyan", x |-> 0, y |-> 0, width |-> 0, height |-> 0]
    /\ pos_out = NoResult

\* BackgroundState::new()
BackgroundNew ==
    [matrix_columns |-> <<>>, last_width |-> 0, last_height |-> 0, last_update_ms |-> 0]

BackgroundIdle == bg = BackgroundNew /\ bg_frame = NoResult

\* No App built yet.
AppIdle == app = NoResult /\ run = NoResult /\ frame = NoResult

(***************************************************************************)
(* sigye-core: the cyclic enumerations.                                    *)
(***************************************************************************)
ALL_ANIMATION_STYLES == <<"None", "Shifting", "Pulsing", "Wave", "Reactive">>

ALL_BACKGROUND_STYLES == <<"None", "Starfield", "MatrixRain", "GradientWave">>

ALL_ANIMATION_SPEEDS == <<"Slow", "Medium", "Fast">>

\* The mutant: White left out of the cycling order (Cyan listed twice).
ALL_THEMES_NoWhite ==
    <<"Cyan", "Green", "Magenta", "Yellow", "Red", "Blue", "Cyan",
      "Rainbow", "RainbowVertical", "GradientWarm", "GradientCool",
      "GradientOcean", "GradientNeon", "GradientFire">>

ALL_THEMES ==
    <<"Cyan", "Green", "Magenta", "Yellow", "Red", "Blue", "White",
      "Rainbow", "RainbowVertical", "GradientWarm", "GradientCool",
      "GradientOcean", "GradientNeon", "GradientFire">>

\* The variants each enum declares (declaration order, not cycling order).
ColorTheme ==
    {"Cyan", "Green", "White", "Magenta", "Yellow", "Red", "Blue",
     "Rainbow", "RainbowVertical", "GradientWarm", "GradientCool",
     "GradientOcean", "GradientNeon", "GradientFire"}

AnimationStyle == {"None", "Shifting", "Pulsing", "Wave", "Reactive"}

BackgroundStyle == {"None", "Starfield", "MatrixRain", "GradientWave"}

AnimationSpeed == {"Slow", "Medium", "Fast"}

\* list.iter().position(|s| s == v).unwrap_or(0): the 0-based index of the
\* first occurrence of v, 0 when there is none.
Position(list, v) ==
    IF \E i \in 1..Len(list) : list[i] = v
    THEN (CHOOSE i \in 1..Len(list) :
              list[i] = v /\ \A j \in 1..(i - 1) : list[j] # v) - 1
    ELSE 0

\* list[idx] for a 0-based idx.
At(list, idx) == list[idx + 1]

\* The body shared by the four next(): (current_idx + 1) % len.
CycleNext(list, v) == At(list, (Position(list, v) + 1) % Len(list))

\* The body shared by the four prev(): len - 1 at index 0, else current_idx - 1.
CyclePrev(list, v) ==
    LET current_idx == Position(list, v)
    IN  At(list, IF current_idx = 0 THEN Len(list) - 1 ELSE current_idx - 1)

ColorThemeNext(v) == CycleNext(ALL_THEMES, v)

\* The mutant: prev saturates at the first theme instead of wrapping.
ColorThemePrevNoWrap(v) ==
    At(ALL_THEMES, IF Position(ALL_THEMES, v) = 0
                   THEN 0
                   ELSE Position(ALL_THEMES, v) - 1)

ColorThemePrev(v) == CyclePrev(ALL_THEMES, v)

AnimationStyleNext(v) == CycleNext(ALL_ANIMATION_STYLES, v)

AnimationStylePrev(v) == CyclePrev(ALL_ANIMATION_STYLES, v)

BackgroundStyleNext(v) == CycleNext(ALL_BACKGROUND_STYLES, v)

BackgroundStylePrev(v) == CyclePrev(ALL_BACKGROUND_STYLES, v)

AnimationSpeedNext(v) == CycleNext(ALL_ANIMATION_SPEEDS, v)

AnimationSpeedPrev(v) == CyclePrev(ALL_ANIMATION_SPEEDS, v)

(***************************************************************************)
(* SpecCycle: the four settings start at any configured value and are      *)
(* stepped forwards and backwards.                                         *)
(***************************************************************************)
InitCycle ==
    /\ AppIdle
    /\ color_theme \in ColorTheme
    /\ animation_style \in AnimationStyle
    /\ background_style \in BackgroundStyle
    /\ animation_speed \in AnimationSpeed
    /\ ClockIdle /\ ColorIdle /\ ParseIdle /\ RenderIdle
    /\ RegistryIdle /\ ReactiveIdle /\ PositionIdle /\ BackgroundIdle

NotCycle == <<clockVars, colorVars, parseVars, renderVars,
                 registryVars, reactiveVars, positionVars, backgroundVars, appVars>>

ThemeNext ==
    /\ color_theme' = ColorThemeNext(color_theme)
    /\ UNCHANGED <<animation_style, background_style, animation_speed, NotCycle>>

ThemePrev ==
    /\ color_theme' = ColorThemePrev(color_theme)
    /\ UNCHANGED <<animation_style, background_style, animation_speed, NotCycle>>

StyleNext ==
    /\ animation_style' = AnimationStyleNext(animation_style)
    /\ UNCHANGED <<color_theme, background_style, animation_speed, NotCycle>>

StylePrev ==
    /\ animation_style' = AnimationStylePrev(animation_style)
    /\ UNCHANGED <<color_theme, background_style, animation_speed, NotCycle>>

BackgroundNext ==
    /\ background_style' = BackgroundStyleNext(background_style)
    /\ UNCHANGED <<color_theme, animation_style, animation_speed, NotCycle>>

BackgroundPrev ==
    /\ background_style' = BackgroundStylePrev(background_style)
    /\ UNCHANGED <<color_theme, animation_style, animation_speed, NotCycle>>

SpeedNext ==
    /\ animation_speed' = AnimationSpeedNext(animation_speed)
    /\ UNCHANGED <<color_theme, animation_style, background_style, NotCycle>>

SpeedPrev ==
    /\ animation_speed' = AnimationSpeedPrev(animation_speed)
    /\ UNCHANGED <<color_theme, animation_style, background_style, NotCycle>>

NextCycle ==
    \/ ThemeNext \/ ThemePrev
    \/ StyleNext \/ StylePrev
    \/ BackgroundNext \/ BackgroundPrev
    \/ SpeedNext \/ SpeedPrev

SpecCycle == InitCycle /\ [][NextCycle]_vars

\* op applied k times to v.
RECURSIVE Iterate(_, _, _)
Iterate(op(_), v, k) == IF k = 0 THEN v ELSE op(Iterate(op, v, k - 1))

\* C1: for each of the four cyclic enumerations and every variant v,
\* next(prev(v)) = v and prev(next(v)) = v.
C1_NextPrevInverse ==
    /\ ColorThemeNext(ColorThemePrev(color_theme)) = color_theme
    /\ ColorThemePrev(ColorThemeNext(color_theme)) = color_theme
    /\ AnimationStyleNext(AnimationStylePrev(animation_style)) = animation_style
    /\ AnimationStylePrev(AnimationStyleNext(animation_style)) = animation_style
    /\ BackgroundStyleNext(BackgroundStylePrev(background_style)) = background_style
    /\ BackgroundStylePrev(BackgroundStyleNext(background_style)) = background_style
    /\ AnimationSpeedNext(AnimationSpeedPrev(animation_speed)) = animation_speed
    /\ AnimationSpeedPrev(AnimationSpeedNext(animation_speed)) = animation_speed

\* The wrap-around cases: the first theme stepped back and the last speed
\* stepped forward, with a variant (White) whose declaration position differs
\* from its cycling position.
C1_Witness ==
    /\ color_theme = "Cyan" /\ ColorThemePrev(color_theme) = "GradientFire"
    /\ animation_speed = "Fast" /\ AnimationSpeedNext(animation_speed) = "Slow"
    /\ animation_style = "Reactive"
    /\ background_style = "GradientWave"
    /\ ColorThemeNext("Blue") = "White"

\* C2: with cycle lengths 14, 5, 4 and 3, applying next exactly N times from
\* any variant returns to it, no smaller positive number of applications
\* does, and the N applications visit every variant of the enumeration.
C2_FullCycle ==
    /\ Iterate(ColorThemeNext, color_theme, 14) = color_theme
    /\ \A k \in 1..13 : Iterate(ColorThemeNext, color_theme, k) # color_theme
    /\ {Iterate(ColorThemeNext, color_theme, k) : k \in 1..14} = ColorTheme
    /\ Iterate(AnimationStyleNext, animation_style, 5) = animation_style
    /\ \A k \in 1..4 : Iterate(AnimationStyleNext, animation_style, k) # animation_style
    /\ {Iterate(AnimationStyleNext, animation_style, k) : k \in 1..5} = AnimationStyle
    /\ Iterate(BackgroundStyleNext, background_style, 4) = background_style
    /\ \A k \in 1..3 : Iterate(BackgroundStyleNext, background_style, k) # background_style
    /\ {Iterate(BackgroundStyleNext, background_style, k) : k \in 1..4} = BackgroundStyle
    /\ Iterate(AnimationSpeedNext, animation_speed, 3) = animation_speed
    /\ \A k \in 1..2 : Iterate(AnimationSpeedNext, animation_speed, k) # animation_speed
    /\ {Iterate(AnimationSpeedNext, animation_speed, k) : k \in 1..3} = AnimationSpeed

\* A state in the middle of every cycle, reached by stepping.
C2_Witness ==
    /\ color_theme = "White" /\ Iterate(ColorThemeNext, "White", 7) = "GradientFire"
    /\ animation_style = "Pulsing"
    /\ background_style = "MatrixRain"
    /\ animation_speed = "Slow"


(***************************************************************************)
(* IEEE-754 binary32 arithmetic, as Rust's f32 computes it (round to       *)
(* nearest, ties to even).  A value is [s, m, e] and stands for            *)
(* (-1)^s * m * 2^e with 2^23 <= m < 2^24, or m = 0 for zero.  The values  *)
(* the program computes here stay far from the subnormal and the overflow  *)
(* range, and no NaN arises; the sign of zero is not kept (no operation    *)
(* used here tells -0.0 from 0.0).                                         *)
(***************************************************************************)
RECURSIVE BitLen(_)
BitLen(M) == IF M = 0 THEN 0 ELSE 1 + BitLen(M \div 2)

F32Zero == [s |-> 0, m |-> 0, e |-> 0]

\* M * 2^E rounded to 24 significant bits; a set lowest bit of M may stand
\* for any non-zero remainder below it (M then has at least 26 bits).
F32Round(s, M, E) ==
    LET n == BitLen(M)
        k == n - 24
        q == M \div (2 ^ k)
        r == M % (2 ^ k)
        half == 2 ^ (k - 1)
        up == r > half \/ (r = half /\ q % 2 = 1)
        q2 == IF up THEN q + 1 ELSE q
    IN  IF M = 0 THEN F32Zero
        ELSE IF n <= 24 THEN [s |-> s, m |-> M * (2 ^ (24 - n)), e |-> E - (24 - n)]
        ELSE IF q2 = 16777216 THEN [s |-> s, m |-> 8388608, e |-> E + k + 1]
        ELSE [s |-> s, m |-> q2, e |-> E + k]

\* n as f32 for an integer n.
F32FromInt(n) == IF n < 0 THEN F32Round(1, 0 - n, 0) ELSE F32Round(0, n, 0)

F32Neg(a) == IF a.m = 0 THEN a ELSE [a EXCEPT !.s = 1 - a.s]

\* |a| < |b|
F32MagLt(a, b) ==
    IF a.m = 0 THEN b.m # 0
    ELSE IF b.m = 0 THEN FALSE
    ELSE a.e < b.e \/ (a.e = b.e /\ a.m < b.m)

F32Lt(a, b) ==
    IF a.s = 1 /\ b.s = 0 THEN TRUE
    ELSE IF a.s = 0 /\ b.s = 1 THEN FALSE
    ELSE IF a.s = 0 THEN F32MagLt(a, b)
    ELSE F32MagLt(b, a)

F32Gt(a, b) == F32Lt(b, a)

F32Le(a, b) == ~F32Lt(b, a)

F32Ge(a, b) == ~F32Lt(a, b)

F32Max(a, b) == IF F32Lt(a, b) THEN b ELSE a

F32Min(a, b) == IF F32Lt(b, a) THEN b ELSE a

Jam(M, sticky) == IF sticky /\ M % 2 = 0 THEN M + 1 ELSE M

F32Add(a, b) ==
    IF a.m = 0 THEN b
    ELSE IF b.m = 0 THEN a
    ELSE
      LET x == IF F32MagLt(a, b) THEN b ELSE a
          y == IF F32MagLt(a, b) THEN a ELSE b
          d == x.e - y.e
          X == x.m * 8
          Y == IF d >= 27 THEN 1
               ELSE Jam((y.m * 8) \div (2 ^ d), (y.m * 8) % (2 ^ d) # 0)
          S == IF x.s = y.s THEN X + Y ELSE X - Y
      IN  F32Round(x.s, S, x.e - 3)

F32Sub(a, b) == F32Add(a, F32Neg(b))

F32Mul(a, b) ==
    IF a.m = 0 \/ b.m = 0 THEN F32Zero
    ELSE
      LET ah == a.m \div 4096
          al == a.m % 4096
          bh == b.m \div 4096
          bl == b.m % 4096
          mid == ah * bl + al * bh
          L == (mid % 4096) * 4096 + al * bl
          H == ah * bh + (mid \div 4096) + (L \div 16777216)
          Lo == L % 16777216
      IN  F32Round((a.s + b.s) % 2,
                   Jam(H * 64 + (Lo \div 262144), Lo % 262144 # 0),
                   a.e + b.e + 18)

\* n more quotient bits of rem / d by long division: <<quotient, remainder>>.
RECURSIVE DivBits(_, _, _, _)
DivBits(rem, d, n, acc) ==
    IF n = 0 THEN <<acc, rem>>
    ELSE IF 2 * rem >= d THEN DivBits(2 * rem - d, d, n - 1, 2 * acc + 1)
    ELSE DivBits(2 * rem, d, n - 1, 2 * acc)

\* a / b for b # 0.
F32Div(a, b) ==
    IF a.m = 0 THEN F32Zero
    ELSE
      LET qr == DivBits(a.m % b.m, b.m, 26, a.m \div b.m)
      IN  F32Round((a.s + b.s) % 2, Jam(qr[1], qr[2] # 0), a.e - b.e - 26)

\* a as u8: truncation towards zero, saturating at 0 and 255.
F32ToU8(a) ==
    IF a.m = 0 \/ a.s = 1 THEN 0
    ELSE IF a.e >= 0 THEN 255
    ELSE IF a.e <= -24 THEN 0
    ELSE LET t == a.m \div (2 ^ (0 - a.e)) IN IF t > 255 THEN 255 ELSE t

(***************************************************************************)
(* sigye-core: the colon blink gate.                                       *)
(***************************************************************************)
\* The mutant: the "on" phase made inclusive of its end.
is_colon_visible_inclusive(ms) ==
    F32Le(F32Div(F32FromInt(ms % 1000), F32FromInt(1000)),
          F32Div(F32FromInt(1), F32FromInt(2)))

is_colon_visible(ms) ==
    LET phase == F32Div(F32FromInt(ms % 1000), F32FromInt(1000))
    IN  F32Lt(phase, F32Div(F32FromInt(1), F32FromInt(2)))

(***************************************************************************)
(* sigye-core: RGB <-> HSL.  HSL values are triples of f32.                *)
(***************************************************************************)
F32Lit(n) == F32FromInt(n)

OneThird == F32Div(F32Lit(1), F32Lit(3))

TwoThirds == F32Div(F32Lit(2), F32Lit(3))

OneSixth == F32Div(F32Lit(1), F32Lit(6))

OneHalf == F32Div(F32Lit(1), F32Lit(2))

rgb_to_hsl(r8, g8, b8) ==
    LET r == F32Div(F32FromInt(r8), F32Lit(255))
        g == F32Div(F32FromInt(g8), F32Lit(255))
        b == F32Div(F32FromInt(b8), F32Lit(255))
        max == F32Max(F32Max(r, g), b)
        min == F32Min(F32Min(r, g), b)
        l == F32Div(F32Add(max, min), F32Lit(2))
        d == F32Sub(max, min)
        s == IF F32Gt(l, OneHalf)
             THEN F32Div(d, F32Sub(F32Sub(F32Lit(2), max), min))
             ELSE F32Div(d, F32Add(max, min))
        h == IF max = r
             THEN F32Mul(F32Add(F32Div(F32Sub(g, b), d),
                                IF F32Lt(g, b) THEN F32Lit(6) ELSE F32Zero),
                         F32Lit(60))
             ELSE IF max = g
             THEN F32Mul(F32Add(F32Div(F32Sub(b, r), d), F32Lit(2)), F32Lit(60))
             ELSE F32Mul(F32Add(F32Div(F32Sub(r, g), d), F32Lit(4)), F32Lit(60))
    IN  IF max = min THEN <<F32Zero, F32Zero, l>> ELSE <<h, s, l>>

\* The mutant: the third hue sector falls back to q instead of interpolating.
hue_to_rgb_flat(p, q, t0) ==
    LET t1 == IF F32Lt(t0, F32Zero) THEN F32Add(t0, F32Lit(1)) ELSE t0
        t == IF F32Gt(t1, F32Lit(1)) THEN F32Sub(t1, F32Lit(1)) ELSE t1
    IN  IF F32Lt(t, OneSixth)
        THEN F32Add(p, F32Mul(F32Mul(F32Sub(q, p), F32Lit(6)), t))
        ELSE IF F32Lt(t, TwoThirds) THEN q
        ELSE p

hue_to_rgb(p, q, t0) ==
    LET t1 == IF F32Lt(t0, F32Zero) THEN F32Add(t0, F32Lit(1)) ELSE t0
        t == IF F32Gt(t1, F32Lit(1)) THEN F32Sub(t1, F32Lit(1)) ELSE t1
    IN  IF F32Lt(t, OneSixth)
        THEN F32Add(p, F32Mul(F32Mul(F32Sub(q, p), F32Lit(6)), t))
        ELSE IF F32Lt(t, OneHalf) THEN q
        ELSE IF F32Lt(t, TwoThirds)
        THEN F32Add(p, F32Mul(F32Mul(F32Sub(q, p), F32Sub(TwoThirds, t)), F32Lit(6)))
        ELSE p

hsl_to_rgb(h0, s, l) ==
    LET q == IF F32Lt(l, OneHalf)
             THEN F32Mul(l, F32Add(F32Lit(1), s))
             ELSE F32Sub(F32Add(l, s), F32Mul(l, s))
        p == F32Sub(F32Mul(F32Lit(2), l), q)
        h == F32Div(h0, F32Lit(360))
        r == hue_to_rgb(p, q, F32Add(h, OneThird))
        g == hue_to_rgb(p, q, h)
        b == hue_to_rgb(p, q, F32Sub(h, OneThird))
        v == F32ToU8(F32Mul(l, F32Lit(255)))
    IN  IF s.m = 0 THEN <<v, v, v>>
        ELSE <<F32ToU8(F32Mul(r, F32Lit(255))),
               F32ToU8(F32Mul(g, F32Lit(255))),
               F32ToU8(F32Mul(b, F32Lit(255)))>>

(***************************************************************************)
(* SpecClock: frames are rendered at increasing elapsed times, at any      *)
(* animation speed; each frame evaluates the colon gate.                   *)
(***************************************************************************)
MaxElapsedMs == 2200

MaxFrameDelta == 3

InitClock ==
    /\ AppIdle
    /\ elapsed_ms = 0
    /\ colon_visible = is_colon_visible(0)
    /\ animation_speed \in AnimationSpeed
    /\ color_theme = "Cyan" /\ animation_style = "None" /\ background_style = "None"
    /\ ColorIdle /\ ParseIdle /\ RenderIdle
    /\ RegistryIdle /\ ReactiveIdle /\ PositionIdle /\ BackgroundIdle

Frame ==
    \E d \in 1..MaxFrameDelta :
        /\ elapsed_ms + d <= MaxElapsedMs
        /\ elapsed_ms' = elapsed_ms + d
        /\ colon_visible' = is_colon_visible(elapsed_ms + d)
        /\ UNCHANGED <<cycleVars, colorVars, parseVars, renderVars,
                 registryVars, reactiveVars, positionVars, backgroundVars, appVars>>

NextClock == Frame

SpecClock == InitClock /\ [][NextClock]_vars

\* C3: is_colon_visible(elapsed_ms) is true exactly when
\* elapsed_ms mod 1000 < 500, whatever the animation speed.
C3_BlinkDutyCycle == colon_visible = (elapsed_ms % 1000 < 500)

\* The first hidden instant of the second period, at the fast speed.
C3_Witness ==
    /\ elapsed_ms = 1500 /\ colon_visible = FALSE /\ animation_speed = "Fast"

(***************************************************************************)
(* SpecColor: a colour is converted to HSL and back.                       *)
(***************************************************************************)
ChannelStep == 24

Channels == {c \in 0..255 : c % ChannelStep = 0} \cup {1, 127, 128, 254, 255}

InitColor ==
    /\ AppIdle
    /\ rgb_in \in Channels \X Channels \X Channels
    /\ rgb_out = NoResult
    /\ CycleIdle /\ ClockIdle /\ ParseIdle /\ RenderIdle
    /\ RegistryIdle /\ ReactiveIdle /\ PositionIdle /\ BackgroundIdle

RoundTrip ==
    /\ rgb_out = NoResult
    /\ LET hsl == rgb_to_hsl(rgb_in[1], rgb_in[2], rgb_in[3])
       IN  rgb_out' = Some(hsl_to_rgb(hsl[1], hsl[2], hsl[3]))
    /\ UNCHANGED <<rgb_in, cycleVars, clockVars, parseVars, renderVars,
                 registryVars, reactiveVars, positionVars, backgroundVars, appVars>>

NextColor == RoundTrip

SpecColor == InitColor /\ [][NextColor]_vars

Abs(n) == IF n < 0 THEN 0 - n ELSE n

\* C4: hsl_to_rgb(rgb_to_hsl(r, g, b)) differs from (r, g, b) by at most 1
\* in each channel.
C4_RoundTrip ==
    rgb_out.tag = "Some" =>
        \A i \in 1..3 : Abs(rgb_out.val[i] - rgb_in[i]) <= 1

\* A colour the f32 arithmetic does not return exactly: blue comes back one
\* lower.
C4_Witness == rgb_in = <<128, 0, 1>> /\ rgb_out = Some(<<128, 0, 0>>)

(***************************************************************************)
(* sigye-fonts: text.  A string is a sequence of characters; a character   *)
(* is a one-character string, or the name of a non-ASCII character.         *)
(* U+00A7 (section sign) takes 2 bytes in UTF-8, U+3000 (ideographic space) *)
(* takes 3 and is white space; U+0060 is the ASCII grave accent.            *)
(***************************************************************************)
Utf8Len(c) == IF c = "U+00A7" THEN 2 ELSE IF c = "U+3000" THEN 3 ELSE 1

\* char::is_whitespace
IsWhitespace(c) == c \in {" ", "\t", "U+3000"}

DigitChars == <<"0", "1", "2", "3", "4", "5", "6", "7", "8", "9">>

IsDigit(c) == \E i \in 1..10 : DigitChars[i] = c

DigitVal(c) == Position(DigitChars, c)

\* str::len: the length in bytes.
RECURSIVE ByteLen(_)
ByteLen(str) == IF str = <<>> THEN 0 ELSE Utf8Len(Head(str)) + ByteLen(Tail(str))

\* str::starts_with
StartsWith(str, prefix) ==
    Len(str) >= Len(prefix) /\ SubSeq(str, 1, Len(prefix)) = prefix

\* str::is_char_boundary
IsCharBoundary(str, k) ==
    \E j \in 0..Len(str) : ByteLen(SubSeq(str, 1, j)) = k

\* &str[k..] for a byte index k that is a char boundary.
ByteSliceFrom(str, k) ==
    LET j == CHOOSE j \in 0..Len(str) : ByteLen(SubSeq(str, 1, j)) = k
    IN  SubSeq(str, j + 1, Len(str))

\* str::split_whitespace().collect(): the maximal runs of non-white-space.
RECURSIVE SplitWhitespace(_, _, _)
SplitWhitespace(str, cur, parts) ==
    IF str = <<>> THEN (IF cur = <<>> THEN parts ELSE Append(parts, cur))
    ELSE IF IsWhitespace(Head(str))
    THEN SplitWhitespace(Tail(str), <<>>, IF cur = <<>> THEN parts ELSE Append(parts, cur))
    ELSE SplitWhitespace(Tail(str), Append(cur, Head(str)), parts)

split_whitespace(str) == SplitWhitespace(str, <<>>, <<>>)

\* str::trim_end
RECURSIVE trim_end(_)
trim_end(str) ==
    IF str # <<>> /\ IsWhitespace(str[Len(str)])
    THEN trim_end(SubSeq(str, 1, Len(str) - 1))
    ELSE str

\* The mutant: only one trailing '@' is removed.
strip_suffix_at(str) ==
    IF str # <<>> /\ str[Len(str)] = "@"
    THEN SubSeq(str, 1, Len(str) - 1)
    ELSE str

\* str::trim_end_matches('@')
RECURSIVE trim_end_matches_at(_)
trim_end_matches_at(str) ==
    IF str # <<>> /\ str[Len(str)] = "@"
    THEN trim_end_matches_at(SubSeq(str, 1, Len(str) - 1))
    ELSE str

\* str::replace(hardblank, " ")
replace(str, hardblank) ==
    [i \in 1..Len(str) |-> IF str[i] = hardblank THEN " " ELSE str[i]]

\* The value of a string of decimal digits.
RECURSIVE DecimalValue(_)
DecimalValue(digits) ==
    IF digits = <<>> THEN 0
    ELSE 10 * DecimalValue(SubSeq(digits, 1, Len(digits) - 1))
         + DigitVal(digits[Len(digits)])

Ok(v) == [tag |-> "Ok", val |-> v]

Err(e) == [tag |-> "Err", err |-> e]

\* The thread panics (a slice at a byte index that is no char boundary).
Panic == [tag |-> "Panic"]

\* str::parse::<usize>: an optional '+', then one or more digits.  (The
\* overflow error needs more than 19 digits; the fields here are shorter.)
parse_usize(str) ==
    LET digits == IF str # <<>> /\ str[1] = "+" THEN Tail(str) ELSE str
    IN  IF digits = <<>> \/ \E i \in 1..Len(digits) : ~IsDigit(digits[i])
        THEN Err("ParseIntError")
        ELSE Ok(DecimalValue(digits))

\* str::parse::<i32>: an optional '+' or '-', then one or more digits.
parse_i32(str) ==
    LET signed == str # <<>> /\ str[1] \in {"+", "-"}
        digits == IF signed THEN Tail(str) ELSE str
    IN  IF digits = <<>> \/ \E i \in 1..Len(digits) : ~IsDigit(digits[i])
        THEN Err("ParseIntError")
        ELSE Ok(IF signed /\ str[1] = "-"
                THEN 0 - DecimalValue(digits) ELSE DecimalValue(digits))

\* code as char, for the printable ASCII codes 32..126.
AsciiTable ==
    <<
      " ", "!", "\"", "#", "$", "%", "&", "'", "(", ")", "*", "+",
      ",", "-", ".", "/", "0", "1", "2", "3", "4", "5", "6", "7",
      "8", "9", ":", ";", "<", "=", ">", "?", "@", "A", "B", "C",
      "D", "E", "F", "G", "H", "I", "J", "K", "L", "M", "N", "O",
      "P", "Q", "R", "S", "T", "U", "V", "W", "X", "Y", "Z", "[",
      "\\", "]", "^", "_", "U+0060", "a", "b", "c", "d", "e", "f", "g",
      "h", "i", "j", "k", "l", "m", "n", "o", "p", "q", "r", "s",
      "t", "u", "v", "w", "x", "y", "z", "{", "|", "}", "~"
    >>

Chr(code) == AsciiTable[code - 31]

(***************************************************************************)
(* sigye-fonts: the FLF/TLF parser.                                        *)
(***************************************************************************)
FLF_SIGNATURE == <<"f", "l", "f", "2", "a">>

TLF_SIGNATURE == <<"t", "l", "f", "2", "a">>

InvalidHeader(msg) == [tag |-> "Err", err |-> "InvalidHeader", msg |-> msg]

UnexpectedEndOfFile == Err("UnexpectedEndOfFile")

parse_header(line) ==
    LET signature_len == ByteLen(FLF_SIGNATURE)
        parts == split_whitespace(ByteSliceFrom(line, signature_len + 1))
        height == parse_usize(parts[1])
        baseline == parse_usize(parts[2])
        max_length == parse_usize(parts[3])
        old_layout == parse_i32(parts[4])
        comment_lines == parse_usize(parts[5])
    IN  IF ~StartsWith(line, FLF_SIGNATURE) /\ ~StartsWith(line, TLF_SIGNATURE)
        THEN InvalidHeader("Missing flf2a or tlf2a signature")
        ELSE IF Len(line) <= signature_len
        THEN InvalidHeader("Missing hardblank character")
        ELSE IF ~IsCharBoundary(line, signature_len + 1) THEN Panic
        ELSE IF Len(parts) < 5 THEN InvalidHeader("Not enough header fields")
        ELSE IF height.tag = "Err" THEN InvalidHeader("Invalid height")
        ELSE IF baseline.tag = "Err" THEN InvalidHeader("Invalid baseline")
        ELSE IF max_length.tag = "Err" THEN InvalidHeader("Invalid max_length")
        ELSE IF old_layout.tag = "Err" THEN InvalidHeader("Invalid old_layout")
        ELSE IF comment_lines.tag = "Err" THEN InvalidHeader("Invalid comment_lines")
        ELSE Ok([hardblank |-> line[signature_len + 1],
                 height |-> height.val,
                 baseline |-> baseline.val,
                 max_length |-> max_length.val,
                 old_layout |-> old_layout.val,
                 comment_lines |-> comment_lines.val])

\* The cleaning of one glyph line; both branches of the test
\* i == height - 1 are the same expression.
clean_line(line, hardblank) ==
    replace(trim_end_matches_at(trim_end(line)), hardblank)

\* The loop of parse_character from line i on; pos is the number of lines the
\* iterator has yielded.  The result carries the iterator's new position.
RECURSIVE parse_character_from(_, _, _, _, _, _)
parse_character_from(lines, pos, i, height, hardblank, char_lines) ==
    IF i >= height THEN [tag |-> "Ok", val |-> char_lines, pos |-> pos]
    ELSE IF pos >= Len(lines) THEN UnexpectedEndOfFile
    ELSE parse_character_from(lines, pos + 1, i + 1, height, hardblank,
                              Append(char_lines, clean_line(lines[pos + 1], hardblank)))

parse_character(lines, pos, height, hardblank) ==
    parse_character_from(lines, pos, 0, height, hardblank, <<>>)

FirstCode == 32

\* The mutant: the loop stops one code early (32u8..126).
LastCodeExclusive == 126 - 1

LastCode == 126

\* HashMap::insert
Insert(map, k, v) == (k :> v) @@ map

\* The loop over ascii_code in first..=last, the iterator at pos and the
\* map holding chars when it starts: one parse_character and one insert per
\* code, in ascending order, left at the first error.  (The range is
\* evaluated in two halves, the second from where the first leaves the
\* iterator and the map, which keeps the evaluation shallow and is the same
\* loop.)
RECURSIVE parse_characters(_, _, _, _, _, _)
parse_characters(lines, pos, first, last, header, chars) ==
    IF first = last
    THEN LET char_lines == parse_character(lines, pos, header.height, header.hardblank)
         IN  IF char_lines.tag = "Err" THEN char_lines
             ELSE [tag |-> "Ok",
                   val |-> Insert(chars, Chr(first), char_lines.val),
                   pos |-> char_lines.pos]
    ELSE LET mid == (first + last) \div 2
             lower == parse_characters(lines, pos, first, mid, header, chars)
         IN  IF lower.tag = "Err" THEN lower
             ELSE parse_characters(lines, lower.pos, mid + 1, last, header, lower.val)

\* Lines::next() called n times from position pos: the iterator stays at the
\* end once it is exhausted.
SkipLines(lines, pos, n) == IF pos + n > Len(lines) THEN Len(lines) ELSE pos + n

\* lines is content.lines().
parse_flf(name, lines) ==
    LET header == parse_header(lines[1])
        chars == parse_characters(
                     lines, SkipLines(lines, 1, header.val.comment_lines),
                     FirstCode, LastCode, header.val, <<>>)
    IN  IF lines = <<>> THEN UnexpectedEndOfFile
        ELSE IF header.tag # "Ok" THEN header
        ELSE IF chars.tag = "Err" THEN chars
        ELSE Ok([name |-> name, height |-> header.val.height, chars |-> chars.val])

(***************************************************************************)
(* SpecParse: a font file is put together from a header line and body      *)
(* lines, and handed to parse_header (as the unit tests do) and to         *)
(* parse_flf (as the registry does).                                       *)
(***************************************************************************)
MaxHeight == 2

MaxComments == 2

MaxExtra == 2

\* The name the registry passes along with the content.
FontName == "Standard"

Signatures == {FLF_SIGNATURE, TLF_SIGNATURE}

BadPrefixes == {<<"f", "l", "f", "2">>, <<"F", "L", "F", "2", "a">>, <<>>}

Hardblanks == {"$", "@", " ", "U+00A7"}

Separators == {<<>>, <<" ">>}

\* The decimal digits of n.
RECURSIVE Decimal(_)
Decimal(n) ==
    IF n < 10 THEN <<DigitChars[n + 1]>>
    ELSE Decimal(n \div 10) \o <<DigitChars[(n % 10) + 1]>>

\* The old_layout field and the fields after the fifth.
Tails ==
    {[old_layout |-> <<"1", "5">>, extra |-> <<>>],
     [old_layout |-> <<"-", "1">>, extra |-> << <<"0">>, <<"2", "2", "4", "1", "5">> >>]}

Fields(height, tail, comment_lines) ==
    <<Decimal(height), <<"4">>, <<"1", "3">>, tail.old_layout, Decimal(comment_lines)>>
    \o tail.extra

\* Tokens that are no integers, and one that is no usize.
BadTokens(i) ==
    {<<"x">>, <<"1", ".", "5">>} \cup (IF i = 4 THEN {} ELSE {<<"-", "1">>})

\* The lines after the header line are taken in turn from these.
RawLines ==
    << <<"a", "$", "b", "$", "@">>,
       <<"c", "$", "@", "@">>,
       <<"@", "d", "@", " ", "\t">>,
       <<" ", "e", "U+00A7", "@", "@", "U+3000">>,
       <<>>,
       <<"f", " ", "@", " ", "@">>,
       <<"@", "@">> >>

Body(n) == [j \in 1..n |-> RawLines[((j - 1) % Len(RawLines)) + 1]]

RECURSIVE Join(_)
Join(fields) ==
    IF fields = <<>> THEN <<>>
    ELSE IF Len(fields) = 1 THEN fields[1]
    ELSE fields[1] \o <<" ">> \o Join(Tail(fields))

HeaderLine(in) == in.prefix \o in.hb \o in.sep \o Join(in.fields)

Content(in) == IF in.empty THEN <<>> ELSE <<HeaderLine(in)>> \o Body(in.nbody)

\* Body lengths around the number of lines the parser needs.
BodyLengths(height, comment_lines) ==
    LET need == comment_lines + (LastCode - FirstCode + 1) * height
    IN  {n \in {0, comment_lines, need - 1, need, need + MaxExtra} : n >= 0}

File(prefix, hb, sep, fields, nbody) ==
    [empty |-> FALSE, prefix |-> prefix, hb |-> hb, sep |-> sep,
     fields |-> fields, nbody |-> nbody]

ValidInputs ==
    UNION {{File(p, <<c>>, s, Fields(h, t, cl), n) :
                p \in Signatures, c \in Hardblanks, s \in Separators, t \in Tails,
                n \in BodyLengths(h, cl)} :
           h \in 0..MaxHeight, cl \in 0..MaxComments}

\* The header lines of test_parse_flf_header and test_parse_tlf_header.
UnitTestInputs ==
    {File(FLF_SIGNATURE, <<"$">>, <<" ">>,
          <<<<"5">>, <<"4">>, <<"1", "3">>, <<"1", "5">>, <<"1", "0">>, <<"0">>,
            <<"2", "2", "4", "1", "5">>>>, 0),
     File(TLF_SIGNATURE, <<"$">>, <<" ">>,
          <<<<"8">>, <<"7">>, <<"1", "6">>, <<"-", "1">>, <<"4">>, <<"0">>,
            <<"0">>, <<"0">>>>, 0)}

BadSignatureInputs ==
    {File(p, <<c>>, <<" ">>, Fields(1, t, 1), n) :
        p \in BadPrefixes, c \in Hardblanks, t \in Tails, n \in {0, MaxExtra}}

NoHardblankInputs ==
    {File(p, <<>>, <<>>, <<>>, n) : p \in Signatures, n \in {0, MaxExtra}}

FewFieldInputs ==
    {File(p, <<c>>, <<" ">>, SubSeq(Fields(1, t, 1), 1, k), n) :
        p \in Signatures, c \in Hardblanks, t \in Tails, k \in 0..4, n \in {0, MaxExtra}}

BadFieldInputs ==
    UNION {{File(p, <<c>>, <<" ">>, [Fields(1, t, 1) EXCEPT ![i] = bad], n) :
                p \in Signatures, c \in Hardblanks, t \in Tails,
                bad \in BadTokens(i), n \in {0, MaxExtra}} :
           i \in 1..5}

Inputs ==
    {EmptyInput} \cup ValidInputs \cup UnitTestInputs \cup BadSignatureInputs
    \cup NoHardblankInputs \cup FewFieldInputs \cup BadFieldInputs

InitParse ==
    /\ AppIdle
    /\ CycleIdle /\ ClockIdle /\ ColorIdle /\ RenderIdle
    /\ RegistryIdle /\ ReactiveIdle /\ PositionIdle /\ BackgroundIdle
    /\ input \in Inputs
    /\ content = Content(input)
    /\ header_result = NoResult
    /\ flf_result = NoResult

NotParse == <<cycleVars, clockVars, colorVars, renderVars,
                 registryVars, reactiveVars, positionVars, backgroundVars, appVars>>

\* parse_header on the first line, as the unit tests call it.
CallParseHeader ==
    /\ content # <<>>
    /\ header_result = NoResult
    /\ header_result' = parse_header(content[1])
    /\ UNCHANGED <<input, content, flf_result, NotParse>>

\* parse_flf on the whole content.
CallParseFlf ==
    /\ flf_result = NoResult
    /\ flf_result' = parse_flf(FontName, content)
    /\ UNCHANGED <<input, content, header_result, NotParse>>

NextParse == CallParseHeader \/ CallParseFlf

SpecParse == InitParse /\ [][NextParse]_vars


(***************************************************************************)
(* What the header line of an input says, read off the way the input was   *)
(* put together.                                                           *)
(***************************************************************************)
MaxField == 99

IsNatToken(tok) == \E n \in 0..MaxField : Decimal(n) = tok

NatValue(tok) == CHOOSE n \in 0..MaxField : Decimal(n) = tok

IsIntToken(tok) ==
    IsNatToken(tok) \/ (tok # <<>> /\ tok[1] = "-" /\ IsNatToken(Tail(tok)))

\* Signature, one hardblank character, at least five fields of the right kind.
WellFormedHeader(in) ==
    /\ ~in.empty
    /\ in.prefix \in Signatures
    /\ Len(in.hb) = 1
    /\ Len(in.fields) >= 5
    /\ \A i \in {1, 2, 3, 5} : IsNatToken(in.fields[i])
    /\ IsIntToken(in.fields[4])

\* No signature, no hardblank, fewer than five fields, or a field among the
\* first five that is no integer.
MalformedHeader(in) ==
    \/ in.empty
    \/ in.prefix \notin Signatures
    \/ Len(in.hb) = 0
    \/ Len(in.fields) < 5
    \/ \E i \in 1..5 : ~IsIntToken(in.fields[i])

HeaderHeight(in) == NatValue(in.fields[1])

HeaderCommentLines(in) == NatValue(in.fields[5])

\* C5: parse_header succeeds on every header line made of a signature, any
\* single character c (ASCII or not) and at least five fields of the right
\* kind, and returns hardblank = c, height = field 1, comment_lines = field 5,
\* whatever fields follow.
C5_HeaderAccepted ==
    (header_result.tag # "None" /\ WellFormedHeader(input)) =>
        /\ header_result.tag = "Ok"
        /\ header_result.val.hardblank = input.hb[1]
        /\ header_result.val.height = HeaderHeight(input)
        /\ header_result.val.comment_lines = HeaderCommentLines(input)

\* C6: parse_flf fails with InvalidHeader whenever the signature is missing
\* or malformed, the hardblank is missing, there are fewer than five header
\* fields, or one of the first five fields is no integer.
C6_HeaderRejected ==
    (flf_result.tag # "None" /\ MalformedHeader(input)) =>
        flf_result.tag = "Err" /\ flf_result.err = "InvalidHeader"

\* The input line that holds line i (from 1) of the glyph of code c.
GlyphSource(c, i) ==
    content[1 + HeaderCommentLines(input) + (c - 32) * HeaderHeight(input) + i]

\* C7: every Font returned by parse_flf has the header's height, exactly 95
\* glyphs keyed by the characters of codes 32..126 and taken from the file
\* in ascending order of code, each of exactly height lines; the lines after
\* the 95th glyph change nothing.
C7_FontShape ==
    flf_result.tag = "Ok" =>
        LET f == flf_result.val
            used == 1 + HeaderCommentLines(input) + 95 * HeaderHeight(input)
        IN  /\ f.height = HeaderHeight(input)
            /\ DOMAIN f.chars = {Chr(c) : c \in 32..126}
            /\ Cardinality(DOMAIN f.chars) = 95
            /\ \A c \in 32..126 :
                   /\ Len(f.chars[Chr(c)]) = f.height
                   /\ \A i \in 1..f.height :
                          f.chars[Chr(c)][i] = clean_line(GlyphSource(c, i), input.hb[1])
            /\ Len(content) > used =>
                   parse_flf(FontName, SubSeq(content, 1, used)) = flf_result

C7_Witness ==
    /\ flf_result.tag = "Ok"
    /\ flf_result.val.height = 2
    /\ HeaderCommentLines(input) = 1
    /\ Len(content) = 1 + 1 + 95 * 2 + MaxExtra
    /\ flf_result.val.chars[" "] = << <<"c", " ">>, <<"@", "d">> >>
    /\ flf_result.val.chars["!"] = << <<" ", "e", "U+00A7">>, <<>> >>

\* C8: with a valid header, an input that ends before comment_lines comment
\* lines and 95 x height glyph lines makes parse_flf return
\* UnexpectedEndOfFile.
C8_TruncatedRejected ==
    (/\ flf_result.tag # "None"
     /\ WellFormedHeader(input)
     /\ Len(content) - 1 < HeaderCommentLines(input) + 95 * HeaderHeight(input))
    => flf_result = UnexpectedEndOfFile


\* The length of a raw line without its trailing white space.
TrimmedLen(raw) ==
    CHOOSE j \in 0..Len(raw) :
        /\ j = 0 \/ ~IsWhitespace(raw[j])
        /\ \A k \in (j + 1)..Len(raw) : IsWhitespace(raw[k])

\* ... and without the '@' characters that then end it.
StrippedLen(raw) ==
    CHOOSE j \in 0..TrimmedLen(raw) :
        /\ j = 0 \/ raw[j] # "@"
        /\ \A k \in (j + 1)..TrimmedLen(raw) : raw[k] = "@"

\* The raw line cut there, with a space for every hardblank.
ExpectedClean(raw, hardblank) ==
    [k \in 1..StrippedLen(raw) |-> IF raw[k] = hardblank THEN " " ELSE raw[k]]

\* The end marker is one '@' ('@@' on the final line of a glyph), followed by
\* white space or nothing.
MarkerLen(final) == IF final THEN 2 ELSE 1

\* The hardblank stands just before the end marker.
HardblankBeforeMarker(raw, hardblank, final) ==
    LET n == TrimmedLen(raw)
        start == n - MarkerLen(final)
    IN  /\ start >= 1
        /\ \A k \in (start + 1)..n : raw[k] = "@"
        /\ raw[start] = hardblank

\* A stored line that ends with the space of the hardblank that stood just
\* before the end marker of raw.
KeepsHardblank(line, raw, final) ==
    /\ Len(line) = TrimmedLen(raw) - MarkerLen(final)
    /\ line[Len(line)] = " "

\* C9, as stated: every glyph line, final or not, is the raw line without
\* trailing white space, then without all trailing '@', then with a space for
\* every hardblank; so it never ends in '@', never contains the hardblank
\* (unless that is the space), and a hardblank just before the end marker
\* survives as a trailing space.
C9_CleanedLines ==
    flf_result.tag = "Ok" =>
        \A c \in 32..126 : \A i \in 1..flf_result.val.height :
            LET line == flf_result.val.chars[Chr(c)][i]
                raw == GlyphSource(c, i)
                hardblank == input.hb[1]
                final == (i = flf_result.val.height)
            IN  /\ line = ExpectedClean(raw, hardblank)
                /\ line = <<>> \/ line[Len(line)] # "@"
                /\ hardblank # " " => \A k \in 1..Len(line) : line[k] # hardblank
                /\ HardblankBeforeMarker(raw, hardblank, final)
                       => KeepsHardblank(line, raw, final)

\* C9, amended: the same, the last consequence for a hardblank other than
\* '@' only (a hardblank '@' is removed along with the end marker).
C9_CleanedLinesAmended ==
    flf_result.tag = "Ok" =>
        \A c \in 32..126 : \A i \in 1..flf_result.val.height :
            LET line == flf_result.val.chars[Chr(c)][i]
                raw == GlyphSource(c, i)
                hardblank == input.hb[1]
                final == (i = flf_result.val.height)
            IN  /\ line = ExpectedClean(raw, hardblank)
                /\ line = <<>> \/ line[Len(line)] # "@"
                /\ hardblank # " " => \A k \in 1..Len(line) : line[k] # hardblank
                /\ (hardblank # "@" /\ HardblankBeforeMarker(raw, hardblank, final))
                       => KeepsHardblank(line, raw, final)

\* A font of height 2 with hardblank '$': the first line of '!' had trailing
\* white space and an inner '@', both lines of the space glyph had the
\* hardblank before the end marker.
C9_Witness ==
    /\ flf_result.tag = "Ok"
    /\ input.hb = <<"$">>
    /\ flf_result.val.height = 2
    /\ HeaderCommentLines(input) = 0
    /\ HardblankBeforeMarker(GlyphSource(32, 1), "$", FALSE)
    /\ flf_result.val.chars[" "][1] = <<"a", " ", "b", " ">>
    /\ GlyphSource(33, 1) = <<"@", "d", "@", " ", "\t">>
    /\ flf_result.val.chars["!"][1] = <<"@", "d">>
    /\ GlyphSource(32, 2) = <<"c", "$", "@", "@">>
    /\ HardblankBeforeMarker(GlyphSource(32, 2), "$", TRUE)
    /\ flf_result.val.chars[" "][2] = <<"c", " ">>


\* C11: every Font the parser produces has height > 0: a header whose height
\* field is 0 yields no Font.
C11_PositiveHeight ==
    flf_result.tag = "Ok" => flf_result.val.height > 0

(***************************************************************************)
(* sigye-fonts: Font::render_text.                                         *)
(***************************************************************************)
\* HashMap::get
get(map, k) == IF k \in DOMAIN map THEN Some(map[k]) ELSE NoResult

\* for (i, char_line) in char_lines.iter().enumerate():
\*     if i < lines.len() then lines[i].push_str(char_line)
PushLines(lines, char_lines) ==
    [i \in 1..Len(lines) |->
        IF i <= Len(char_lines) THEN lines[i] \o char_lines[i] ELSE lines[i]]

\* The mutant: a character without a glyph contributes nothing.
RenderCharNoFallback(self, lines, ch) ==
    LET char_lines == get(self.chars, ch)
    IN  IF char_lines.tag = "Some" THEN PushLines(lines, char_lines.val)
        ELSE lines

\* The body of the loop over text.chars().
RenderChar(self, lines, ch) ==
    LET char_lines == get(self.chars, ch)
        space_lines == get(self.chars, " ")
    IN  IF char_lines.tag = "Some" THEN PushLines(lines, char_lines.val)
        ELSE IF space_lines.tag = "Some" THEN PushLines(lines, space_lines.val)
        ELSE lines

RECURSIVE RenderLoop(_, _, _)
RenderLoop(self, chars, lines) ==
    IF chars = <<>> THEN lines
    ELSE RenderLoop(self, Tail(chars), RenderChar(self, lines, Head(chars)))

render_text(self, str) == RenderLoop(self, str, [i \in 1..self.height |-> <<>>])

(***************************************************************************)
(* SpecRender: a font, as any user of the crate can build one (Font and    *)
(* its fields are public), renders a text.                                 *)
(***************************************************************************)
MaxFontHeight == 2

MaxTextLen == 3

\* The characters a font may hold, and those of a text ('?' has no glyph).
GlyphChars == {" ", "A", "B"}

TextChars == {" ", "A", "B", "?"}

\* Line i of the glyph of ch: glyphs differ in width, 'A' in every line.
GlyphLine(ch, i) ==
    IF ch = "A" THEN <<"A", DigitChars[i + 1]>>
    ELSE IF ch = "B" THEN <<"B">>
    ELSE <<" ", " ">>

\* A glyph is absent, or has height lines, or one fewer, or one more.
Shapes == {"absent", "regular", "short", "long"}

ShapeLines(shape, height) ==
    IF shape = "regular" THEN height
    ELSE IF shape = "long" THEN height + 1
    ELSE IF height > 0 THEN height - 1 ELSE 0

Fonts ==
    {[name |-> FontName,
      height |-> h,
      chars |-> [ch \in {c \in GlyphChars : sh[c] # "absent"} |->
                    [i \in 1..ShapeLines(sh[ch], h) |-> GlyphLine(ch, i)]]] :
        h \in 0..MaxFontHeight,
        sh \in {f \in [GlyphChars -> Shapes] : f["B"] \in {"absent", "regular"}}}

Texts == UNION {[1..n -> TextChars] : n \in 0..MaxTextLen}

InitRender ==
    /\ AppIdle
    /\ CycleIdle /\ ClockIdle /\ ColorIdle /\ ParseIdle
    /\ RegistryIdle /\ ReactiveIdle /\ PositionIdle /\ BackgroundIdle
    /\ font \in Fonts
    /\ text \in Texts
    /\ rendered = NoResult

NotRender == <<cycleVars, clockVars, colorVars, parseVars,
                 registryVars, reactiveVars, positionVars, backgroundVars, appVars>>

Render ==
    /\ rendered = NoResult
    /\ rendered' = Some(render_text(font, text))
    /\ UNCHANGED <<font, text, NotRender>>

NextRender == Render

SpecRender == InitRender /\ [][NextRender]_vars

\* What the character ch adds to line i: line i of its glyph, or of the space
\* glyph if it has none, or nothing if that is absent too (or has no line i).
Contribution(f, ch, i) ==
    LET glyph == IF ch \in DOMAIN f.chars THEN f.chars[ch]
                 ELSE IF " " \in DOMAIN f.chars THEN f.chars[" "]
                 ELSE <<>>
    IN  IF i <= Len(glyph) THEN glyph[i] ELSE <<>>

RECURSIVE Concat(_)
Concat(seqs) == IF seqs = <<>> THEN <<>> ELSE Head(seqs) \o Concat(Tail(seqs))

\* C10: for any font and any text, the empty one included, render_text
\* returns exactly font.height lines, line i being the concatenation in text
\* order of line i of each character's glyph (the space glyph for a character
\* without one, nothing if that is absent too), and leaves the font as it was.
C10_RenderText ==
    [][(rendered.tag = "None" /\ rendered'.tag = "Some") =>
            /\ Len(rendered'.val) = font.height
            /\ \A i \in 1..font.height :
                   rendered'.val[i] =
                       Concat([k \in 1..Len(text) |-> Contribution(font, text[k], i)])
            /\ font' = font]_vars

\* A font of height 2 without a glyph for 'B' renders "AB?": both 'B' and '?'
\* take the space glyph.
C10_Witness ==
    /\ font.height = 2
    /\ DOMAIN font.chars = {" ", "A"}
    /\ Len(font.chars["A"]) = 2
    /\ Len(font.chars[" "]) = 2
    /\ text = <<"A", "B", "?">>
    /\ rendered = Some(<< <<"A", "1", " ", " ", " ", " ">>,
                          <<"A", "2", " ", " ", " ", " ">> >>)


(***************************************************************************)
(* sigye-fonts: the font registry.                                         *)
(***************************************************************************)
\* The names of BUNDLED_FONTS, in order.
BUNDLED_FONT_NAMES ==
    <<
       "3D-ASCII", "Alphabet", "ANSI Shadow", "Avatar", "Banner",
       "Big", "Block", "Chunky", "Colossal", "Alligator",
       "Doom", "Electronic", "Epic", "Graffiti", "Ivrit",
       "Larry 3D", "Lean", "Mini", "Ogre", "Poison",
       "Roman", "Script", "Shadow", "Slant", "Small",
       "Speed", "Standard", "Star Wars", "Acrobatic", "ANSI Regular",
       "Big Money-ne", "BlurVision ASCII", "Doh", "Bell", "Puffy",
       "Rectangles", "Mono 9", "Mono 12", "Rebel", "Terrace",
       "Tmplr"
    >>

\* A font file of height 1 without comment lines, cut after nbody lines.
FontFile(signature, hardblank, nbody) ==
    Content(File(signature, <<hardblank>>, <<" ">>,
                 Fields(1, [old_layout |-> <<"1", "5">>, extra |-> <<>>], 0),
                 nbody))

\* The content of a bundled font file: a complete font, or (for a file that
\* does not parse) one that ends a line early.
BundledContent(broken) == IF broken THEN FontFile(FLF_SIGNATURE, "$", 94) ELSE FontFile(FLF_SIGNATURE, "$", 95)

\* The bundled fonts whose files may fail to parse; the file of "Standard"
\* parses.
BreakableBundled == {"3D-ASCII", "Big", "Tmplr"}

\* BUNDLED_FONTS, the files of the fonts in broken not parsing.
BUNDLED_FONTS(broken) ==
    [i \in 1..Len(BUNDLED_FONT_NAMES) |->
        <<BUNDLED_FONT_NAMES[i], BundledContent(BUNDLED_FONT_NAMES[i] \in broken)>>]

\* The map after the inserts of the entries of list at the indices in kept,
\* made in ascending order (a later insert under the same name wins).
Inserted(list, parsed, kept) ==
    [n \in {list[i][1] : i \in kept} |->
        LET last == CHOOSE i \in kept :
                        /\ list[i][1] = n
                        /\ \A j \in kept : list[j][1] = n => j <= i
        IN  parsed[last].val]

\* The mutant: the first bundled font that fails to parse ends the loading.
registry_new_fail_fast(bundled) ==
    LET parsed == [i \in 1..Len(bundled) |-> parse_flf(bundled[i][1], bundled[i][2])]
    IN  Inserted(bundled, parsed,
                 {i \in 1..Len(bundled) : \A j \in 1..i : parsed[j].tag = "Ok"})

\* FontRegistry::new: every bundled font that parses is inserted under its
\* name, the others are reported and left out.
registry_new(bundled) ==
    LET parsed == [i \in 1..Len(bundled) |-> parse_flf(bundled[i][1], bundled[i][2])]
    IN  Inserted(bundled, parsed, {i \in 1..Len(bundled) : parsed[i].tag = "Ok"})

\* What a file of a fonts directory holds: a font that parses, one that ends
\* early, one whose header names a hardblank outside ASCII, or nothing that
\* can be read as UTF-8 text.
FileKinds == {"valid", "truncated", "wide_hardblank", "unreadable"}

\* fs::read_to_string
read_to_string(file) ==
    IF file = "unreadable" THEN Err("io")
    ELSE IF file = "valid" THEN Ok(FontFile(TLF_SIGNATURE, "@", 95))
    ELSE IF file = "truncated" THEN Ok(FontFile(TLF_SIGNATURE, "@", 94))
    ELSE Ok(FontFile(TLF_SIGNATURE, "U+00A7", 95))

\* The body of the loop of load_custom_fonts for one directory entry; the
\* result holds the map and whether the thread panicked.
load_entry(fonts, entry) ==
    LET name == entry.stem
        read == read_to_string(entry.file)
        parsed == parse_flf(name, read.val)
    IN  IF entry.ext # "flf" THEN [fonts |-> fonts, panicked |-> FALSE]
        ELSE IF name \in DOMAIN fonts THEN [fonts |-> fonts, panicked |-> FALSE]
        ELSE IF read.tag = "Err" THEN [fonts |-> fonts, panicked |-> FALSE]
        ELSE IF parsed.tag = "Panic" THEN [fonts |-> fonts, panicked |-> TRUE]
        ELSE IF parsed.tag = "Err" THEN [fonts |-> fonts, panicked |-> FALSE]
        ELSE [fonts |-> Insert(fonts, name, parsed.val), panicked |-> FALSE]

RECURSIVE load_entries(_, _)
load_entries(fonts, entries) ==
    IF entries = <<>> THEN [fonts |-> fonts, panicked |-> FALSE]
    ELSE LET first == load_entry(fonts, Head(entries))
         IN  IF first.panicked THEN first
             ELSE load_entries(first.fonts, Tail(entries))

\* FontRegistry::load_custom_fonts
load_custom_fonts(fonts, dir) ==
    IF ~dir.exists THEN [fonts |-> fonts, panicked |-> FALSE]
    ELSE IF ~dir.readable THEN [fonts |-> fonts, panicked |-> FALSE]
    ELSE load_entries(fonts, dir.entries)

\* FontRegistry::get_or_default
get_or_default(fonts, name) ==
    IF name \in DOMAIN fonts THEN Some(fonts[name])
    ELSE IF "Standard" \in DOMAIN fonts THEN Some(fonts["Standard"])
    ELSE Panic


(***************************************************************************)
(* The registry from its construction on: directories of custom fonts are  *)
(* loaded and fonts are looked up.  lookup holds the last lookup made      *)
(* since the registry last changed, aborted whether a call has panicked.   *)
(***************************************************************************)
MaxDirEntries == 2

FileStems == {"Standard", "Big", "Custom"}

LookupNames == FileStems \cup {"Missing"}

\* The files a directory may hold: font files under a bundled name that is
\* always taken, under one that may be free and under a new name, and a file
\* with another extension.
DirEntries ==
    {[stem |-> st, ext |-> "flf", file |-> k] : st \in {"Big", "Custom"}, k \in FileKinds}
    \cup {[stem |-> "Standard", ext |-> "flf", file |-> "valid"],
          [stem |-> "Custom", ext |-> "txt", file |-> "valid"]}

\* Listings of up to MaxDirEntries files with distinct file names.
RECURSIVE Listings(_)
Listings(n) ==
    IF n = 0 THEN {<<>>}
    ELSE LET shorter == Listings(n - 1)
         IN  shorter \cup
             {Append(l, e) : l \in {k \in shorter : Len(k) = n - 1}, e \in DirEntries}

DistinctNames(l) ==
    \A i, j \in 1..Len(l) : i # j => <<l[i].stem, l[i].ext>> # <<l[j].stem, l[j].ext>>

Dirs ==
    {[exists |-> FALSE, readable |-> FALSE, entries |-> <<>>],
     [exists |-> TRUE, readable |-> FALSE, entries |-> <<>>]}
    \cup {[exists |-> TRUE, readable |-> TRUE, entries |-> l] :
             l \in {k \in Listings(MaxDirEntries) : DistinctNames(k)}}

InitRegistry ==
    /\ AppIdle
    /\ \E broken \in SUBSET BreakableBundled : registry = registry_new(BUNDLED_FONTS(broken))
    /\ aborted = FALSE
    /\ lookup = NoResult
    /\ CycleIdle /\ ClockIdle /\ ColorIdle /\ ParseIdle /\ RenderIdle
    /\ ReactiveIdle /\ PositionIdle /\ BackgroundIdle

NotRegistry ==
    <<cycleVars, clockVars, colorVars, parseVars, renderVars,
      reactiveVars, positionVars, backgroundVars, appVars>>

LoadCustomFonts ==
    /\ ~aborted
    /\ \E dir \in Dirs :
          LET loaded == load_custom_fonts(registry, dir)
          IN  /\ registry' = loaded.fonts
              /\ aborted' = loaded.panicked
    /\ lookup' = NoResult
    /\ UNCHANGED NotRegistry

GetOrDefault ==
    /\ ~aborted
    /\ \E name \in LookupNames :
          LET found == get_or_default(registry, name)
          IN  /\ lookup' = Some([name |-> name, font |-> found])
              /\ aborted' = (found.tag = "Panic")
    /\ UNCHANGED registry
    /\ UNCHANGED NotRegistry

NextRegistry == LoadCustomFonts \/ GetOrDefault

SpecRegistry == InitRegistry /\ [][NextRegistry]_vars

\* C12: a font named Standard is always present, and a lookup returns the
\* font of the asked name when the registry holds it and the font named
\* Standard otherwise.
C12_StandardFallback ==
    /\ "Standard" \in DOMAIN registry
    /\ lookup.tag = "Some" =>
          lookup.val.font =
              Some(IF lookup.val.name \in DOMAIN registry
                   THEN registry[lookup.val.name]
                   ELSE registry["Standard"])

\* C12 witness: with a bundled font left out and a custom font loaded, the
\* lookup of a name the registry does not hold has returned the bundled
\* Standard font.
C12_Witness ==
    /\ "Big" \notin DOMAIN registry
    /\ "Custom" \in DOMAIN registry
    /\ lookup.tag = "Some"
    /\ lookup.val.name = "Missing"
    /\ lookup.val.font.tag = "Some"
    /\ lookup.val.font.val.name = "Standard"
    /\ lookup.val.font.val.height = 1

\* C13: loading a directory never removes or replaces a font the registry
\* holds, and never aborts the call: files that fail are skipped.
C13_LoadSkipsFailures ==
    [][LoadCustomFonts =>
          /\ \A n \in DOMAIN registry :
                n \in DOMAIN registry' /\ registry'[n] = registry[n]
          /\ ~aborted']_vars


(***************************************************************************)
(* sigye-core: the Reactive animation style.                               *)
(***************************************************************************)
color_to_rgb(color) ==
    CASE color.name = "Rgb" -> color.rgb
      [] color.name = "Red" -> <<255, 0, 0>>
      [] color.name = "Green" -> <<0, 255, 0>>
      [] color.name = "Blue" -> <<0, 0, 255>>
      [] color.name = "Yellow" -> <<255, 255, 0>>
      [] color.name = "Magenta" -> <<255, 0, 255>>
      [] color.name = "Cyan" -> <<0, 255, 255>>
      [] color.name = "White" -> <<255, 255, 255>>
      [] OTHER -> <<128, 128, 128>>

\* The mutant: the factor is the flash intensity alone.
apply_reactive_flash_only(color, flash_intensity) ==
    LET rgb == color_to_rgb(color)
        factor == flash_intensity
    IN  Rgb(F32ToU8(F32Min(F32Mul(F32FromInt(rgb[1]), factor), F32Lit(255))),
            F32ToU8(F32Min(F32Mul(F32FromInt(rgb[2]), factor), F32Lit(255))),
            F32ToU8(F32Min(F32Mul(F32FromInt(rgb[3]), factor), F32Lit(255))))

apply_reactive(color, flash_intensity) ==
    LET rgb == color_to_rgb(color)
        factor == F32Add(F32Lit(1), flash_intensity)
    IN  Rgb(F32ToU8(F32Min(F32Mul(F32FromInt(rgb[1]), factor), F32Lit(255))),
            F32ToU8(F32Min(F32Mul(F32FromInt(rgb[2]), factor), F32Lit(255))),
            F32ToU8(F32Min(F32Mul(F32FromInt(rgb[3]), factor), F32Lit(255))))

(***************************************************************************)
(* apply_reactive on base colours and flash intensities in [0, 1].         *)
(***************************************************************************)
StimulusSteps == 10

\* The intensities update_flash sets (1.0, 0.7, 0.3), no flash, and a grid
\* of the values the decay passes through.
Stimuli ==
    {F32Div(F32Lit(k), F32Lit(StimulusSteps)) : k \in 0..StimulusSteps}
    \cup {F32Lit(1), F32Div(F32Lit(7), F32Lit(10)), F32Div(F32Lit(3), F32Lit(10)), F32Zero}

NamedColors ==
    {Named(n) : n \in {"Red", "Green", "Blue", "Yellow", "Magenta", "Cyan", "White", "Gray"}}

\* Every channel value occurs in each channel.
BaseColors ==
    NamedColors \cup {Rgb(c, 255 - c, (c + 190) % 256) : c \in 0..255}

InitReactive ==
    /\ AppIdle
    /\ reactive_in \in [color : BaseColors, flash_intensity : Stimuli]
    /\ reactive_out = NoResult
    /\ CycleIdle /\ ClockIdle /\ ColorIdle /\ ParseIdle /\ RenderIdle
    /\ RegistryIdle /\ PositionIdle /\ BackgroundIdle

ApplyReactive ==
    /\ reactive_out = NoResult
    /\ reactive_out' = Some(apply_reactive(reactive_in.color, reactive_in.flash_intensity))
    /\ UNCHANGED reactive_in
    /\ UNCHANGED <<cycleVars, clockVars, colorVars, parseVars, renderVars,
                   registryVars, positionVars, backgroundVars, appVars>>

NextReactive == ApplyReactive

SpecReactive == InitReactive /\ [][NextReactive]_vars

\* floor(c * s) for a channel c and an f32 s in [0, 1], in exact arithmetic.
FloorScaled(c, s) ==
    IF s.m = 0 THEN 0
    ELSE LET hi == c * (s.m \div 4096)
             lo == c * (s.m % 4096)
         IN  (hi + (lo \div 4096)) \div (2 ^ ((0 - s.e) - 12))

\* min(floor(c * (1 + s)), 255)
Boosted(c, s) ==
    LET v == c + FloorScaled(c, s) IN IF v > 255 THEN 255 ELSE v

\* C14 as stated: each result channel equals min(floor(c * (1 + s)), 255).
C14_ReactiveExact ==
    reactive_out.tag = "Some" =>
        \A i \in 1..3 :
            reactive_out.val.rgb[i] =
                Boosted(color_to_rgb(reactive_in.color)[i], reactive_in.flash_intensity)

\* C14 amended: each result channel is within 1 of min(floor(c * (1 + s)),
\* 255); it never exceeds 255 and never drops below c, and with s = 1.0 a
\* base channel of 200 gives 255.
C14_ReactiveWithinOne ==
    reactive_out.tag = "Some" =>
        \A i \in 1..3 :
            LET c == color_to_rgb(reactive_in.color)[i]
                s == reactive_in.flash_intensity
                out == reactive_out.val.rgb[i]
            IN  /\ reactive_out.val.name = "Rgb"
                /\ Abs(out - Boosted(c, s)) <= 1
                /\ out <= 255
                /\ out >= c
                /\ (s = F32Lit(1) /\ c = 200) => out = 255

\* C14 witness: a flash of 0.3 on a colour with a channel of 190 gives 246
\* there, one below floor(190 * (1 + s)) = 247; full flash on 200 gives 255.
C14_Witness ==
    /\ reactive_out.tag = "Some"
    /\ reactive_in.flash_intensity = F32Div(F32Lit(3), F32Lit(10))
    /\ color_to_rgb(reactive_in.color)[1] = 190
    /\ reactive_out.val.rgb[1] = 246
    /\ Boosted(190, reactive_in.flash_intensity) = 247


(***************************************************************************)
(* sigye-core: ColorTheme::color and ColorTheme::color_at_position.        *)
(***************************************************************************)
color(theme) ==
    CASE theme \in {"Cyan", "Green", "White", "Magenta", "Yellow", "Red", "Blue"} -> Named(theme)
      [] theme \in {"Rainbow", "RainbowVertical", "GradientNeon"} -> Named("Magenta")
      [] theme \in {"GradientWarm", "GradientFire"} -> Named("Red")
      [] theme \in {"GradientCool", "GradientOcean"} -> Named("Cyan")

\* The colors array of the two rainbow themes.
RainbowColors ==
    <<Named("Red"), Rgb(255, 127, 0), Named("Yellow"), Named("Green"),
      Named("Cyan"), Named("Blue"), Named("Magenta")>>

\* colors[idx] for position pos of size
rainbow_color(pos, size) ==
    LET idx == IF size > 0
               THEN ((pos * Len(RainbowColors)) \div (IF size > 1 THEN size ELSE 1))
                    % Len(RainbowColors)
               ELSE 0
    IN  RainbowColors[idx + 1]

\* let progress = if width > 0 { (x as f32) / (width.max(1) as f32) } else { 0.0 }
progress_of(x, width) ==
    IF width > 0
    THEN F32Div(F32FromInt(x), F32FromInt(IF width > 1 THEN width ELSE 1))
    ELSE F32Zero

Half == F32Div(F32Lit(1), F32Lit(2))

\* (k * ((progress - from) * by)) as u8
Ramp(k, progress, from, by) ==
    F32ToU8(F32Mul(F32Lit(k), F32Mul(F32Sub(progress, from), F32Lit(by))))

\* The three channels of a gradient theme at progress, each as the integer
\* its u8 expression stands for: a sum above 255 is one that overflows u8.
gradient_channels(theme, progress) ==
    CASE theme = "GradientWarm" ->
           IF F32Lt(progress, Half)
           THEN <<255, Ramp(127, progress, F32Zero, 2), 0>>
           ELSE <<255, 127 + Ramp(128, progress, Half, 2), 0>>
      [] theme = "GradientCool" ->
           IF F32Lt(progress, Half)
           THEN <<0, Ramp(255, progress, F32Zero, 2), 255>>
           ELSE <<0, 255, 255 - Ramp(255, progress, Half, 2)>>
      [] theme = "GradientOcean" ->
           IF F32Lt(progress, Half)
           THEN <<Ramp(100, progress, F32Zero, 2),
                  F32ToU8(F32Add(F32Lit(150),
                                 F32Mul(F32Lit(105), F32Mul(progress, F32Lit(2))))),
                  255>>
           ELSE <<100, 255, 255 - Ramp(127, progress, Half, 2)>>
      [] theme = "GradientNeon" ->
           <<255 - F32ToU8(F32Mul(F32Lit(255), progress)),
             F32ToU8(F32Mul(F32Lit(255), progress)),
             255>>
      [] theme = "GradientFire" ->
           IF F32Lt(progress, F32Div(F32Lit(33), F32Lit(100)))
           THEN <<128 + Ramp(127, progress, F32Zero, 3), 0, 0>>
           ELSE IF F32Lt(progress, F32Div(F32Lit(66), F32Lit(100)))
           THEN <<255, Ramp(165, progress, F32Div(F32Lit(33), F32Lit(100)), 3), 0>>
           ELSE <<255, 165 + Ramp(90, progress, F32Div(F32Lit(66), F32Lit(100)), 3), 0>>

GradientThemes ==
    {"GradientWarm", "GradientCool", "GradientOcean", "GradientNeon", "GradientFire"}

\* The outcomes of the u8 additions that gave the channels ch: one that
\* overflows panics in a build with overflow checks and wraps modulo 256 in
\* one without.
channel_outcomes(ch) ==
    IF \E i \in 1..3 : ch[i] > 255
    THEN {Panic, Some(Rgb(ch[1] % 256, ch[2] % 256, ch[3] % 256))}
    ELSE {Some(Rgb(ch[1], ch[2], ch[3]))}

\* The outcomes of color_at_position.
color_at_position(theme, x, y, width, height) ==
    IF theme = "Rainbow" THEN {Some(rainbow_color(x, width))}
    ELSE IF theme = "RainbowVertical" THEN {Some(rainbow_color(y, height))}
    ELSE IF theme \in GradientThemes
    THEN channel_outcomes(gradient_channels(theme, progress_of(x, width)))
    ELSE {Some(color(theme))}

(***************************************************************************)
(* color_at_position over themes, sizes and positions.                     *)
(***************************************************************************)
MaxSmallWidth == 4

MaxTextHeight == 2

\* Every small width, and widths of terminal lines up to the largest u16.
Widths == (0..MaxSmallWidth) \cup {80, 338, 400, 65535}

\* Positions inside the width and past it.
Columns(width) ==
    IF width <= MaxSmallWidth THEN 0..(2 * width + 1)
    ELSE {0, width \div 2, width - 2, width - 1, width, 2 * width}

InitPosition ==
    /\ AppIdle
    /\ \E theme \in ColorTheme, width \in Widths, height \in 0..MaxTextHeight :
         \E x \in Columns(width), y \in 0..(height + 1) :
            pos_in = [theme |-> theme, x |-> x, y |-> y, width |-> width, height |-> height]
    /\ pos_out = NoResult
    /\ CycleIdle /\ ClockIdle /\ ColorIdle /\ ParseIdle /\ RenderIdle
    /\ RegistryIdle /\ ReactiveIdle /\ BackgroundIdle

ColorAtPosition ==
    /\ pos_out = NoResult
    /\ pos_out' \in color_at_position(pos_in.theme, pos_in.x, pos_in.y,
                                      pos_in.width, pos_in.height)
    /\ UNCHANGED pos_in
    /\ UNCHANGED <<cycleVars, clockVars, colorVars, parseVars, renderVars,
                   registryVars, reactiveVars, backgroundVars, appVars>>

NextPosition == ColorAtPosition

SpecPosition == InitPosition /\ [][NextPosition]_vars

\* No channel of the colour computed for pos_in overflows 8 bits, and the
\* call has returned a colour.
NoOverflow ==
    /\ pos_out.tag = "Some"
    /\ pos_in.theme \in GradientThemes =>
          \A i \in 1..3 :
             gradient_channels(pos_in.theme, progress_of(pos_in.x, pos_in.width))[i] <= 255

\* C15: for every gradient theme, every width >= 1 and every x with
\* 0 <= x < width, color_at_position computes each channel inside 0..255
\* with no 8-bit overflow.
C15_GradientInRange ==
    (/\ pos_out # NoResult
     /\ pos_in.theme \in GradientThemes
     /\ pos_in.width >= 1
     /\ pos_in.x < pos_in.width) => NoOverflow

\* C19: color_at_position returns a colour without arithmetic failure for
\* every theme and all x, y, width, height, width or height 0 and positions
\* with x >= width or y >= height included.
C19_NoArithmeticFailure ==
    pos_out # NoResult => NoOverflow


(***************************************************************************)
(* sigye: background animations (BackgroundState).  A column is a record   *)
(* [y, speed, trail_length, char_seed] with y and speed f32; a cell is the *)
(* glyph drawn and its foreground colour.  Glyphs outside ASCII are named  *)
(* by their code point.                                                    *)
(***************************************************************************)
STAR_CHARS == <<".", "*", "+", "U+00B7", "U+2726", "U+2727">>

MATRIX_CHARS ==
    <<
      "U+30A2", "U+30A4", "U+30A6", "U+30A8", "U+30AA", "U+30AB", "U+30AD", "U+30AF",
      "U+30B1", "U+30B3", "U+30B5", "U+30B7", "U+30B9", "U+30BB", "U+30BD", "U+30BF",
      "U+30C1", "U+30C4", "U+30C6", "U+30C8", "0", "1", "2", "3",
      "4", "5", "6", "7", "8", "9"
    >>

star_twinkle_period_ms(speed) ==
    CASE speed = "Slow" -> 500 [] speed = "Medium" -> 300 [] speed = "Fast" -> 150

matrix_fall_speed(speed) ==
    CASE speed = "Slow" -> Half [] speed = "Medium" -> F32Lit(1) [] speed = "Fast" -> F32Lit(2)

\* Span::raw(" ")
Blank == [ch |-> " ", fg |-> Named("Reset")]

\* Span::styled(ch.to_string(), Style::new().fg(color))
Styled(ch, fg) == [ch |-> ch, fg |-> fg]

\* The closure of init_matrix_columns for column x.
init_column_positive(x, height) ==
    LET stagger == F32FromInt((x * 7 + 3) % (height * 2))
    IN  [y |-> stagger,
         speed |-> F32Add(F32Div(F32Lit(3), F32Lit(10)),
                          F32Div(F32FromInt((x * 13) % 10), F32Lit(15))),
         trail_length |-> 4 + ((x * 11) % 8),
         char_seed |-> x * 17]

init_column(x, height) ==
    LET stagger == F32FromInt((x * 7 + 3) % (height * 2))
    IN  [y |-> F32Neg(stagger),
         speed |-> F32Add(F32Div(F32Lit(3), F32Lit(10)),
                          F32Div(F32FromInt((x * 13) % 10), F32Lit(15))),
         trail_length |-> 4 + ((x * 11) % 8),
         char_seed |-> x * 17]

\* init_matrix_columns: the remainder by height * 2 panics when a column is
\* built for height 0.
init_matrix_columns(self, width, height) ==
    IF width > 0 /\ height = 0 THEN Panic
    ELSE Ok([self EXCEPT !.matrix_columns = [i \in 1..width |-> init_column(i - 1, height)],
                         !.last_width = width,
                         !.last_height = height])

\* The mutant: a column that leaves the screen keeps its seed.
update_column_keep_seed(col, delta_y, height) ==
    LET y == F32Add(col.y, F32Mul(delta_y, col.speed))
    IN  IF F32Gt(y, F32Add(F32FromInt(height), F32FromInt(col.trail_length)))
        THEN [col EXCEPT !.y = F32Neg(F32FromInt(col.trail_length))]
        ELSE [col EXCEPT !.y = y]

\* The body of the loop of update_matrix.
update_column(col, delta_y, height) ==
    LET y == F32Add(col.y, F32Mul(delta_y, col.speed))
    IN  IF F32Gt(y, F32Add(F32FromInt(height), F32FromInt(col.trail_length)))
        THEN [col EXCEPT !.y = F32Neg(F32FromInt(col.trail_length)),
                         !.char_seed = col.char_seed + 1]
        ELSE [col EXCEPT !.y = y]

\* The mutant: the columns rise.
delta_y_of_rising(delta_ms, speed) ==
    F32Neg(F32Mul(F32Div(F32FromInt(delta_ms), F32Lit(50)), matrix_fall_speed(speed)))

\* let delta_y = (delta_ms as f32 / 50.0) * fall_speed
delta_y_of(delta_ms, speed) ==
    F32Mul(F32Div(F32FromInt(delta_ms), F32Lit(50)), matrix_fall_speed(speed))

update_matrix(self, elapsed, height, speed) ==
    LET delta_ms == IF elapsed >= self.last_update_ms
                    THEN elapsed - self.last_update_ms ELSE 0
        delta_y == delta_y_of(delta_ms, speed)
    IN  [self EXCEPT !.last_update_ms = elapsed,
                     !.matrix_columns =
                         [i \in 1..Len(self.matrix_columns) |->
                             update_column(self.matrix_columns[i], delta_y, height)]]

\* The mutant: stars at seeds 0..3 of every hundred.
render_starfield_char_dense(x, y, elapsed, speed) ==
    LET frame_num == elapsed \div star_twinkle_period_ms(speed)
        seed == x * 31 + y * 17 + frame_num
    IN  IF seed % 100 <= 3
        THEN Styled(STAR_CHARS[(seed % Len(STAR_CHARS)) + 1],
                    CASE seed % 3 = 0 -> Rgb(60, 60, 80)
                      [] seed % 3 = 1 -> Rgb(100, 100, 140)
                      [] OTHER -> Rgb(150, 150, 200))
        ELSE Blank

render_starfield_char(x, y, elapsed, speed) ==
    LET frame_num == elapsed \div star_twinkle_period_ms(speed)
        seed == x * 31 + y * 17 + frame_num
    IN  IF seed % 100 < 3
        THEN Styled(STAR_CHARS[(seed % Len(STAR_CHARS)) + 1],
                    CASE seed % 3 = 0 -> Rgb(60, 60, 80)
                      [] seed % 3 = 1 -> Rgb(100, 100, 140)
                      [] OTHER -> Rgb(150, 150, 200))
        ELSE Blank

\* The mutant: the row of the head itself is left blank.
render_matrix_char_open(self, x, row) ==
    IF x >= Len(self.matrix_columns) THEN Blank
    ELSE
      LET col == self.matrix_columns[x + 1]
          y == F32FromInt(row)
          head_y == col.y
          trail == F32FromInt(col.trail_length)
          tail_y == F32Sub(head_y, trail)
          distance_from_head == F32Sub(head_y, y)
          intensity == F32Sub(F32Lit(1), F32Div(distance_from_head, trail))
          char_idx == (col.char_seed + row) % Len(MATRIX_CHARS)
      IN  IF F32Ge(y, tail_y) /\ F32Lt(y, head_y)
          THEN Styled(MATRIX_CHARS[char_idx + 1],
                      IF F32Lt(distance_from_head, F32Lit(1))
                      THEN Rgb(200, 255, 200)
                      ELSE Rgb(0,
                               F32ToU8(F32Add(F32Lit(80), F32Mul(F32Lit(120), intensity))),
                               0))
          ELSE Blank

render_matrix_char(self, x, row) ==
    IF x >= Len(self.matrix_columns) THEN Blank
    ELSE
      LET col == self.matrix_columns[x + 1]
          y == F32FromInt(row)
          head_y == col.y
          trail == F32FromInt(col.trail_length)
          tail_y == F32Sub(head_y, trail)
          distance_from_head == F32Sub(head_y, y)
          intensity == F32Sub(F32Lit(1), F32Div(distance_from_head, trail))
          char_idx == (col.char_seed + row) % Len(MATRIX_CHARS)
      IN  IF F32Ge(y, tail_y) /\ F32Le(y, head_y)
          THEN Styled(MATRIX_CHARS[char_idx + 1],
                      IF F32Lt(distance_from_head, F32Lit(1))
                      THEN Rgb(200, 255, 200)
                      ELSE Rgb(0,
                               F32ToU8(F32Add(F32Lit(80), F32Mul(F32Lit(120), intensity))),
                               0))
          ELSE Blank

\* render_gradient_char takes the sine of an f32; its cell is a function of
\* these arguments that is left uninterpreted.
render_gradient_char(x, y, width, height, elapsed, speed) ==
    [ch |-> "gradient", fg |-> Named("Reset"),
     at |-> <<x, y, width, height, elapsed, speed>>]

render_char(self, x, y, width, height, style, elapsed, speed) ==
    CASE style = "None" -> Blank
      [] style = "Starfield" -> render_starfield_char(x, y, elapsed, speed)
      [] style = "MatrixRain" -> render_matrix_char(self, x, y)
      [] style = "GradientWave" -> render_gradient_char(x, y, width, height, elapsed, speed)

\* BackgroundState::render on a frame of the given size: the state after
\* the call and the lines drawn (none for style None), or a panic.
render(self, style, width, height, elapsed, speed) ==
    IF style = "None" THEN [state |-> self, drawn |-> Ok(<<>>)]
    ELSE
      LET resized == style = "MatrixRain"
                     /\ (width # self.last_width \/ height # self.last_height)
          init == IF resized THEN init_matrix_columns(self, width, height) ELSE Ok(self)
          updated == IF style = "MatrixRain"
                     THEN update_matrix(init.val, elapsed, height, speed)
                     ELSE init.val
      IN  IF init.tag = "Panic" THEN [state |-> self, drawn |-> Panic]
          ELSE [state |-> updated,
                drawn |-> Ok([y \in 1..height |->
                               [x \in 1..width |->
                                  render_char(updated, x - 1, y - 1, width, height,
                                              style, elapsed, speed)]])]


(***************************************************************************)
(* The background from App::new on: each frame calls render with the       *)
(* current style and speed, the size of the terminal and the time since    *)
(* the start.  bg_frame holds the arguments of the last call and the lines *)
(* it drew, or that it panicked.                                           *)
(***************************************************************************)
MaxBgElapsedMs == 2000

\* Milliseconds between two frames: none, or a second.
FrameDeltas == {0, 1000}

\* Sizes of the terminal: <<width, height>>, empty ones included.
Canvases == {<<0, 0>>, <<0, 1>>, <<2, 0>>, <<1, 1>>, <<2, 1>>}

InitBackground ==
    /\ AppIdle
    /\ bg = BackgroundNew
    /\ bg_frame = NoResult
    /\ CycleIdle /\ ClockIdle /\ ColorIdle /\ ParseIdle /\ RenderIdle
    /\ RegistryIdle /\ ReactiveIdle /\ PositionIdle

\* elapsed_ms of the preceding call (the clock starts with the App).
LastElapsed == IF bg_frame.tag = "None" THEN 0 ELSE bg_frame.elapsed

RenderBackground ==
    /\ bg_frame.tag # "Panic"
    /\ \E style \in BackgroundStyle, speed \in AnimationSpeed,
          size \in Canvases, delta \in FrameDeltas :
          /\ LastElapsed + delta <= MaxBgElapsedMs
          /\ \E call \in {render(bg, style, size[1], size[2], LastElapsed + delta, speed)} :
                /\ bg' = call.state
                /\ bg_frame' =
                      [tag |-> IF call.drawn.tag = "Panic" THEN "Panic" ELSE "Some",
                       style |-> style, speed |-> speed,
                       width |-> size[1], height |-> size[2],
                       elapsed |-> LastElapsed + delta,
                       cells |-> IF call.drawn.tag = "Panic" THEN <<>> ELSE call.drawn.val]
    /\ UNCHANGED <<cycleVars, clockVars, colorVars, parseVars, renderVars,
                   registryVars, reactiveVars, positionVars, appVars>>

NextBackground == RenderBackground

SpecBackground == InitBackground /\ [][NextBackground]_vars


\* The brightness tiers of a star, dim to bright.
StarTiers == <<Rgb(60, 60, 80), Rgb(100, 100, 140), Rgb(150, 150, 200)>>

\* The cell the last call drew at column x of row y.
CellAt(x, y) == bg_frame.cells[y + 1][x + 1]

\* Every cell of the frame is the starfield cell of its seed.
StarfieldBySeed ==
    \A x \in 0..(bg_frame.width - 1), y \in 0..(bg_frame.height - 1) :
        LET frame_number == bg_frame.elapsed \div star_twinkle_period_ms(bg_frame.speed)
            seed == x * 31 + y * 17 + frame_number
        IN  /\ (CellAt(x, y) # Blank) <=> (seed % 100 < 3)
            /\ seed % 100 < 3 =>
                  /\ Len(STAR_CHARS) = 6
                  /\ CellAt(x, y).ch = STAR_CHARS[(seed % 6) + 1]
                  /\ CellAt(x, y).fg = StarTiers[(seed % 3) + 1]

\* C16: a starfield cell is a function of x, y and the frame number: a star
\* is drawn exactly when seed mod 100 < 3, with glyph seed mod 6 and
\* brightness tier seed mod 3; the call leaves BackgroundState as it was.
C16_StarfieldPure ==
    [][bg_frame'.style = "Starfield" => (bg' = bg /\ StarfieldBySeed')]_vars

\* C16 witness: after the rain has run, a starfield frame one second in at
\* Slow speed (frame number 2) shows the star of seed 2 at the origin and a
\* blank next to it, the rain columns still held.
C16_Witness ==
    /\ bg_frame.tag = "Some"
    /\ bg_frame.style = "Starfield"
    /\ bg_frame.speed = "Slow"
    /\ bg_frame.elapsed = 1000
    /\ bg_frame.width = 2 /\ bg_frame.height = 1
    /\ CellAt(0, 0) = Styled("+", Rgb(150, 150, 200))
    /\ CellAt(1, 0) = Blank
    /\ Len(bg.matrix_columns) = 2

\* The canvas of the call that has just been made differs from the recorded
\* one.
Resized == bg_frame'.width # bg.last_width \/ bg_frame'.height # bg.last_height

\* Column i as the update of the call that has just been made found it.
ColumnBefore(i) ==
    IF Resized THEN init_column(i - 1, bg_frame'.height) ELSE bg.matrix_columns[i]

\* The advance of that update.
DeltaY ==
    delta_y_of(IF bg_frame'.elapsed >= bg.last_update_ms
               THEN bg_frame'.elapsed - bg.last_update_ms ELSE 0,
               bg_frame'.speed)

\* before, advanced by dy on a canvas of the given height, lies beyond
\* height + trail_length.
Exceeds(before, dy, height) ==
    \E advanced \in {F32Add(before.y, F32Mul(dy, before.speed))} :
        F32Gt(advanced, F32FromInt(height + before.trail_length))

\* C17: in every MatrixRain update a column whose advanced head exceeds
\* height + trail_length is reset to -trail_length with its seed one higher,
\* any other column keeps its seed; after a wrap every row's glyph index is
\* another one than before and a valid index into the 30 glyphs.
C17_WrapAdvancesSeed ==
    [][(bg_frame'.style = "MatrixRain" /\ bg_frame'.tag = "Some") =>
          \A dy \in {DeltaY} :
             \A i \in 1..Len(bg'.matrix_columns) :
                \A before \in {ColumnBefore(i)}, after \in {bg'.matrix_columns[i]} :
                   IF Exceeds(before, dy, bg_frame'.height)
                   THEN /\ after.y = F32FromInt(0 - before.trail_length)
                        /\ after.char_seed = before.char_seed + 1
                        /\ \A row \in 0..bg_frame'.height :
                              /\ (after.char_seed + row) % 30 # (before.char_seed + row) % 30
                              /\ (after.char_seed + row) % 30 < Len(MATRIX_CHARS)
                   ELSE after.char_seed = before.char_seed]_vars

\* C17 witness: at Medium speed a second after the start the first column
\* has come down to row 5 and keeps its seed, the second has wrapped.
C17_Witness ==
    /\ bg_frame.tag = "Some"
    /\ bg_frame.style = "MatrixRain"
    /\ bg_frame.height = 1
    /\ Len(bg.matrix_columns) = 2
    /\ bg.matrix_columns[1].y = F32FromInt(5)
    /\ bg.matrix_columns[1].char_seed = 0
    /\ bg.matrix_columns[2].y = F32FromInt(0 - 7)
    /\ bg.matrix_columns[2].char_seed = 17 + 1

\* C18: after every MatrixRain render call the state holds one column per
\* canvas column and records the canvas size; a call with another size than
\* the recorded one rebuilds all columns from their index, a call with the
\* same size keeps them.
C18_ColumnsMatchCanvas ==
    [][bg_frame'.style = "MatrixRain" =>
          /\ bg_frame'.tag = "Some"
          /\ Len(bg'.matrix_columns) = bg_frame'.width
          /\ bg'.last_width = bg_frame'.width
          /\ bg'.last_height = bg_frame'.height
          /\ \A i \in 1..Len(bg'.matrix_columns) :
                bg'.matrix_columns[i] =
                    update_column(IF Resized
                                  THEN init_column(i - 1, bg_frame'.height)
                                  ELSE bg.matrix_columns[i],
                                  DeltaY, bg_frame'.height)]_vars

\* The call that has just been made has rebuilt the columns for a canvas of
\* positive height and has not moved them (no time has passed since the
\* last update).
JustInitialised ==
    /\ bg_frame'.style = "MatrixRain"
    /\ bg_frame'.tag = "Some"
    /\ Resized
    /\ bg_frame'.height > 0
    /\ bg_frame'.elapsed = bg.last_update_ms

\* C20 as stated: columns initialised for a canvas of height h > 0 all start
\* with a negative head position.
C20_HeadsNegative ==
    [][JustInitialised =>
          \A i \in 1..Len(bg'.matrix_columns) :
             F32Lt(bg'.matrix_columns[i].y, F32Zero)]_vars

\* C20 amended: every column x starts with a head position that is negative
\* or zero, the negated remainder of 7x + 3 by 2h, derived only from x and h.
C20_HeadsNotPositive ==
    [][JustInitialised =>
          /\ Len(bg'.matrix_columns) = bg_frame'.width
          /\ \A i \in 1..Len(bg'.matrix_columns) :
                /\ F32Le(bg'.matrix_columns[i].y, F32Zero)
                /\ bg'.matrix_columns[i].y =
                      F32FromInt(0 - ((7 * (i - 1) + 3) % (2 * bg_frame'.height)))]_vars

\* C20 witness: the columns just built for a canvas of width 2 and height
\* 1: the first starts one row above the screen, the second on row 0.
C20_Witness ==
    /\ bg_frame.tag = "Some"
    /\ bg_frame.style = "MatrixRain"
    /\ bg_frame.width = 2 /\ bg_frame.height = 1
    /\ bg_frame.elapsed = 0
    /\ Len(bg.matrix_columns) = 2
    /\ bg.matrix_columns[1].y = F32FromInt(0 - 1)
    /\ bg.matrix_columns[2].y = F32Zero


\* C21: on each render call with MatrixRain every column's head advances by
\* d/50 * matrix_fall_speed(speed) * column multiplier, d being the
\* elapsed_ms of this call minus the elapsed_ms of the immediately preceding
\* render call, whatever style that call used.
C21_AdvanceByFrameDelta ==
    [][(bg_frame'.style = "MatrixRain" /\ bg_frame'.tag = "Some") =>
          \A dy \in {delta_y_of(bg_frame'.elapsed - LastElapsed, bg_frame'.speed)} :
             \A i \in 1..Len(bg'.matrix_columns) :
                \A before \in {ColumnBefore(i)} :
                   bg'.matrix_columns[i] = update_column(before, dy, bg_frame'.height)]_vars

\* C27: rendering with MatrixRain never fails, whatever the canvas size,
\* height 0 with width > 0 included.
C27_MatrixRainNeverFails ==
    bg_frame.tag # "None" /\ bg_frame.style = "MatrixRain" => bg_frame.tag = "Some"


(***************************************************************************)
(* The rain on a canvas of fixed size: the columns as init_matrix_columns  *)
(* builds them, then updates with growing elapsed_ms; a cell of the canvas *)
(* is drawn from the columns (bg_frame holds the last cell drawn since the *)
(* last update).                                                           *)
(***************************************************************************)
\* The largest height of a frame (u16::MAX).
TallHeight == 65535

\* A pause of about six hours between two frames.
LongPauseMs == 21846500

MaxTallFrames == 3

MaxRainElapsedMs == 1500

\* Sizes <<width, height>>: a low canvas of four columns, and one column
\* of the largest height.
RainCanvases == {<<4, 1>>, <<1, TallHeight>>}

\* Milliseconds between two updates.
RainDeltas(height) ==
    IF height = TallHeight THEN {1, LongPauseMs} ELSE {0, 300, 1000}

\* The times of the updates: up to MaxRainElapsedMs on the low canvas; on
\* the tall one up to MaxTallFrames frames a millisecond apart, before and
\* after the pause.
RainTime(height, elapsed) ==
    IF height = TallHeight
    THEN elapsed <= LongPauseMs + MaxTallFrames /\ elapsed % LongPauseMs <= MaxTallFrames
    ELSE elapsed <= MaxRainElapsedMs

\* The rows of which a cell is drawn.
RainRows(height) == {0, height - 1}

InitRain ==
    /\ AppIdle
    /\ \E size \in RainCanvases :
          bg = init_matrix_columns(BackgroundNew, size[1], size[2]).val
    /\ bg_frame = NoResult
    /\ CycleIdle /\ ClockIdle /\ ColorIdle /\ ParseIdle /\ RenderIdle
    /\ RegistryIdle /\ ReactiveIdle /\ PositionIdle

UpdateMatrix ==
    /\ \E speed \in AnimationSpeed, delta \in RainDeltas(bg.last_height) :
          /\ RainTime(bg.last_height, bg.last_update_ms + delta)
          /\ \E updated \in {update_matrix(bg, bg.last_update_ms + delta,
                                           bg.last_height, speed)} :
                bg' = updated
    /\ bg_frame' = NoResult
    /\ UNCHANGED <<cycleVars, clockVars, colorVars, parseVars, renderVars,
                   registryVars, reactiveVars, positionVars, appVars>>

RenderMatrixChar ==
    /\ \E x \in 0..bg.last_width, y \in RainRows(bg.last_height) :
          \E cell \in {render_matrix_char(bg, x, y)} :
             bg_frame' = Some([x |-> x, y |-> y, cell |-> cell])
    /\ UNCHANGED bg
    /\ UNCHANGED <<cycleVars, clockVars, colorVars, parseVars, renderVars,
                   registryVars, reactiveVars, positionVars, appVars>>

NextRain == UpdateMatrix \/ RenderMatrixChar

SpecRain == InitRain /\ [][NextRain]_vars


\* An f32 a >= 0 below 2^24 compared with an integer n >= 0, exactly.
LeInt(a, n) == a.m <= n * (2 ^ (0 - a.e))

GeInt(a, n) == a.m >= n * (2 ^ (0 - a.e))

\* 80 + floor(120 * (1 - (head - y) / trail)) in exact arithmetic, for an
\* f32 head with y + 1 <= head <= y + trail.
ExactGreen(head, y, trail) ==
    LET unit == 2 ^ (0 - head.e)
        rest == (trail + y) * unit - head.m
    IN  80 + ((120 * (rest \div unit) + ((120 * (rest % unit)) \div unit)) \div trail)

\* The cell drawn last is the one the claim describes for its column, the
\* green channel of a trail cell being within tolerance of the exact value.
MatrixCellAsClaimed(tolerance) ==
    bg_frame.tag = "Some" =>
        LET x == bg_frame.val.x
            y == bg_frame.val.y
            cell == bg_frame.val.cell
        IN  IF x >= Len(bg.matrix_columns) THEN cell = Blank
            ELSE LET col == bg.matrix_columns[x + 1]
                     head == col.y
                     shown == head.s = 0 /\ GeInt(head, y) /\ LeInt(head, y + col.trail_length)
                 IN  IF ~shown THEN cell = Blank
                     ELSE /\ Len(MATRIX_CHARS) = 30
                          /\ cell.ch = MATRIX_CHARS[((col.char_seed + y) % 30) + 1]
                          /\ IF ~GeInt(head, y + 1) THEN cell.fg = Rgb(200, 255, 200)
                             ELSE /\ cell.fg = Rgb(0, cell.fg.rgb[2], 0)
                                  /\ Abs(cell.fg.rgb[2] - ExactGreen(head, y, col.trail_length))
                                        <= tolerance
                                  /\ cell.fg.rgb[2] >= 80
                                  /\ cell.fg.rgb[2] <= 200

\* C22 as stated: a rain cell shows a glyph exactly when head - trail_length
\* <= y <= head; the glyph is entry (char_seed + y) mod 30; the colour is
\* the bright head colour when head - y < 1 and otherwise pure green with
\* channel 80 + floor(120 * (1 - (head - y) / trail_length)), in 80..200.
C22_MatrixCellExact == MatrixCellAsClaimed(0)

\* C22 amended: as stated, the green channel being within 1 of
\* 80 + floor(120 * (1 - (head - y) / trail_length)).
C22_MatrixCellWithinOne == MatrixCellAsClaimed(1)

\* C22 witness: after 300 ms at Slow and 300 ms at Medium speed the first
\* column's head is at 1.7000000477 and row 0 shows green 149, one above
\* 80 + floor(120 * (1 - head / 4)) = 148.
C22_Witness ==
    /\ bg_frame.tag = "Some"
    /\ bg_frame.val.x = 0 /\ bg_frame.val.y = 0
    /\ bg.last_update_ms = 600
    /\ bg.matrix_columns[1].trail_length = 4
    /\ bg_frame.val.cell = Styled(MATRIX_CHARS[1], Rgb(0, 149, 0))
    /\ ExactGreen(bg.matrix_columns[1].y, 0, 4) = 148

\* Every column has a trail length in 4..11, a speed multiplier from 0.3 to
\* 0.9 + excess / 2^24 and a head from -max(trail_length, 2h - 1) to
\* h + trail_length.
RainInRange(excess) ==
    \A i \in 1..Len(bg.matrix_columns) :
        LET col == bg.matrix_columns[i]
            h == bg.last_height
            low == IF col.trail_length > 2 * h - 1 THEN col.trail_length ELSE 2 * h - 1
        IN  /\ col.trail_length \in 4..11
            /\ col.speed.s = 0
            /\ 10 * col.speed.m >= 3 * (2 ^ (0 - col.speed.e))
            /\ col.speed.e >= -24
                  => 10 * col.speed.m * (2 ^ (col.speed.e + 24)) <= 9 * 16777216 + 10 * excess
            /\ F32Ge(col.y, F32FromInt(0 - low))
            /\ F32Le(col.y, F32FromInt(h + col.trail_length))

\* No head has moved upward in the step, except by a wrap.
NoHeadRises ==
    \A i \in 1..Len(bg.matrix_columns) :
        \/ F32Ge(bg'.matrix_columns[i].y, bg.matrix_columns[i].y)
        \/ /\ bg'.matrix_columns[i].char_seed = bg.matrix_columns[i].char_seed + 1
           /\ bg'.matrix_columns[i].y = F32FromInt(0 - bg.matrix_columns[i].trail_length)

\* C28 as stated: after every update every column has trail_length in
\* 4..11, speed multiplier in [0.3, 0.9] and -max(trail_length, 2h - 1) <=
\* head <= h + trail_length, and no head moves upward except by a wrap.
C28_RainBounds ==
    [][bg' # bg => (RainInRange(0)' /\ NoHeadRises)]_vars

\* C28 amended: as stated, the speed multiplier being in [0.3, 0.9 + 2^-24]
\* (the largest is 0.3 + 9/15 rounded to 32 bits, 0.90000004).
C28_RainBoundsRounded ==
    [][bg' # bg => (RainInRange(1)' /\ NoHeadRises)]_vars

\* C28 witness: on the low canvas after 300 ms at Fast speed the fourth
\* column has the largest multiplier, 0.3 + 9/15, and its head has come
\* down from 0 to 10.8.
C28_Witness ==
    /\ bg.last_height = 1
    /\ bg.last_update_ms = 300
    /\ bg.matrix_columns[4].speed = F32Add(F32Div(F32Lit(3), F32Lit(10)),
                                           F32Div(F32Lit(9), F32Lit(15)))
    /\ F32Gt(bg.matrix_columns[4].speed, F32Div(F32Lit(9), F32Lit(10)))
    /\ bg.matrix_columns[4].char_seed = 51 + 1
    /\ bg.matrix_columns[1].char_seed = 0
    /\ F32Gt(bg.matrix_columns[1].y, F32Lit(2))

\* C29: with MatrixRain on a fixed canvas and elapsed_ms growing without
\* bound every column's head passes height + trail_length and wraps, again
\* and again, and one update wraps a column at most once.  An update is a
\* function of the columns, the canvas height, the speed and the elapsed
\* delta alone, so a column that an update with a positive delta leaves in
\* place stays there for ever when such updates are repeated: no update
\* with growing elapsed_ms leaves a column where it was.
C29_EveryColumnWraps ==
    [][bg'.last_update_ms > bg.last_update_ms =>
          \A i \in 1..Len(bg.matrix_columns) :
             /\ bg'.matrix_columns[i] # bg.matrix_columns[i]
             /\ bg'.matrix_columns[i].char_seed \in
                   {bg.matrix_columns[i].char_seed, bg.matrix_columns[i].char_seed + 1}]_vars


(***************************************************************************)
(* sigye: the colon mask of App::render, built from Font::char_width.      *)
(***************************************************************************)
\* Font::char_width: the number of characters of the first line of the
\* glyph, 0 for a character without a glyph or a glyph without lines.
char_width(self, ch) ==
    LET lines == get(self.chars, ch)
    IN  IF lines.tag = "Some" /\ lines.val # <<>> THEN Len(lines.val[1]) ELSE 0

\* The loop over time_str.chars(): mask[x_pos + i] = true for i below the
\* width of a ':' (where x_pos + i < mask.len()), x_pos += char_width.
RECURSIVE MaskLoop(_, _, _, _)
MaskLoop(self, chars, mask, x_pos) ==
    IF chars = <<>> THEN mask
    ELSE LET ch == Head(chars)
             width == char_width(self, ch)
             marked == IF ch = ":"
                       THEN [c \in 1..Len(mask) |->
                               mask[c] \/ (c - 1 >= x_pos /\ c - 1 < x_pos + width)]
                       ELSE mask
         IN  MaskLoop(self, Tail(chars), marked, x_pos + width)

\* width = time_lines.first().map(|s| s.len()).unwrap_or(0); the mask is
\* vec![false; width] filled by the loop (colon_blink on).
colon_positions(self, time_str, time_lines) ==
    LET width == IF time_lines = <<>> THEN 0 ELSE Len(time_lines[1])
    IN  MaskLoop(self, time_str, [c \in 1..width |-> FALSE], 0)

(***************************************************************************)
(* SpecMask: a font of the registry renders a time string and the host     *)
(* builds the colon mask for it.                                           *)
(***************************************************************************)
MaxMaskHeight == 2

MaxTimeLen == 3

\* The characters a font may hold and those of a time string ('M' has no
\* glyph in any of the fonts).
MaskGlyphChars == {" ", "1", ":"}

TimeChars == {"1", ":", "M"}

\* A glyph is absent, or all its lines have one width, or line i is i - 1
\* wider than the first.
MaskShapes == {"absent", "even", "ragged"}

MaskGlyphLine(ch, shape, i) ==
    LET base == IF ch = ":" THEN <<":">> ELSE <<ch, ch>>
    IN  IF shape = "ragged" /\ i > 1 THEN base \o <<ch>> ELSE base

MaskFonts ==
    {[name |-> FontName,
      height |-> h,
      chars |-> [ch \in {c \in MaskGlyphChars : sh[c] # "absent"} |->
                    [i \in 1..h |-> MaskGlyphLine(ch, sh[ch], i)]]] :
        h \in 1..MaxMaskHeight, sh \in [MaskGlyphChars -> MaskShapes]}

TimeStrings == UNION {[1..n -> TimeChars] : n \in 0..MaxTimeLen}

InitMask ==
    /\ AppIdle
    /\ CycleIdle /\ ClockIdle /\ ColorIdle /\ ParseIdle
    /\ RegistryIdle /\ ReactiveIdle /\ PositionIdle /\ BackgroundIdle
    /\ font \in MaskFonts
    /\ text \in TimeStrings
    /\ rendered = NoResult

BuildMask ==
    /\ rendered = NoResult
    /\ \E time_lines \in {render_text(font, text)} :
          rendered' = Some([time_lines |-> time_lines,
                            colon_positions |-> colon_positions(font, text, time_lines)])
    /\ UNCHANGED <<font, text, NotRender>>

NextMask == BuildMask

SpecMask == InitMask /\ [][NextMask]_vars

\* The sum of char_width over the first n characters of the text.
RECURSIVE WidthSum(_, _, _)
WidthSum(f, str, n) ==
    IF n = 0 THEN 0 ELSE WidthSum(f, str, n - 1) + char_width(f, str[n])

\* C30: for any font and any text the running sum of char_width gives the
\* column at which each character's glyph starts in every rendered line,
\* the total of char_width is the width of each line, and the colon mask
\* marks exactly the columns occupied by ':' glyphs.
C30_WidthsLocateGlyphs ==
    rendered.tag = "Some" =>
        /\ \A i \in 1..Len(rendered.val.time_lines) :
              LET line == rendered.val.time_lines[i]
              IN  /\ Len(line) = WidthSum(font, text, Len(text))
                  /\ \A k \in 1..Len(text) :
                        SubSeq(line, WidthSum(font, text, k - 1) + 1,
                                     WidthSum(font, text, k))
                           = Contribution(font, text[k], i)
        /\ \A c \in 1..Len(rendered.val.colon_positions) :
              rendered.val.colon_positions[c]
                 <=> \E i \in 1..Len(rendered.val.time_lines) :
                        /\ c <= Len(rendered.val.time_lines[i])
                        /\ rendered.val.time_lines[i][c] = ":"


(***************************************************************************)
(* sigye: the App.  The operators below take and return the App as one     *)
(* record, self; the variables color_theme, animation_style,               *)
(* background_style, animation_speed and bg hold five of its fields and    *)
(* app the others.                                                         *)
(***************************************************************************)
TimeFormat == {"TwentyFourHour", "TwelveHour"}

\* TimeFormat::toggle
toggle(v) == IF v = "TwentyFourHour" THEN "TwelveHour" ELSE "TwentyFourHour"

\* AnimationSpeed::flash_decay_ms
flash_decay_ms(speed) ==
    CASE speed = "Slow" -> 800
      [] speed = "Medium" -> 400
      [] speed = "Fast" -> 200

\* The mutant: a change of second flashes as strongly as a change of minute.
update_flash_strong_second(self, now, instant, later) ==
    LET flash(intensity) == [self EXCEPT !.flash_intensity = intensity,
                                         !.flash_start = Some(instant)]
        triggered ==
            IF now.hour # self.last_hour
            THEN [flash(F32Lit(1)) EXCEPT !.last_hour = now.hour,
                                          !.last_minute = now.minute,
                                          !.last_second = now.second]
            ELSE IF now.minute # self.last_minute
            THEN [flash(F32Div(F32Lit(7), F32Lit(10))) EXCEPT !.last_minute = now.minute,
                                                              !.last_second = now.second]
            ELSE IF now.second # self.last_second
            THEN [flash(F32Div(F32Lit(7), F32Lit(10))) EXCEPT !.last_second = now.second]
            ELSE self
    IN  IF triggered.flash_start.tag = "Some"
        THEN LET decay_ms == flash_decay_ms(triggered.animation_speed)
                 flash_elapsed == F32FromInt(later - triggered.flash_start.val)
                 decay_progress == F32Min(F32Div(flash_elapsed, F32FromInt(decay_ms)),
                                          F32Lit(1))
                 decayed == F32Mul(triggered.flash_intensity,
                                   F32Sub(F32Lit(1), decay_progress))
             IN  IF F32Lt(decayed, F32Div(F32Lit(1), F32Lit(100)))
                 THEN [triggered EXCEPT !.flash_intensity = F32Zero,
                                        !.flash_start = NoResult]
                 ELSE [triggered EXCEPT !.flash_intensity = decayed]
        ELSE triggered

\* App::update_flash.  now is the wall clock of the frame; instant is the
\* reading of Instant::now() when a flash starts and later the reading
\* inside flash_start.elapsed(), both in milliseconds.
update_flash(self, now, instant, later) ==
    LET flash(intensity) == [self EXCEPT !.flash_intensity = intensity,
                                         !.flash_start = Some(instant)]
        triggered ==
            IF now.hour # self.last_hour
            THEN [flash(F32Lit(1)) EXCEPT !.last_hour = now.hour,
                                          !.last_minute = now.minute,
                                          !.last_second = now.second]
            ELSE IF now.minute # self.last_minute
            THEN [flash(F32Div(F32Lit(7), F32Lit(10))) EXCEPT !.last_minute = now.minute,
                                                              !.last_second = now.second]
            ELSE IF now.second # self.last_second
            THEN [flash(F32Div(F32Lit(3), F32Lit(10))) EXCEPT !.last_second = now.second]
            ELSE self
    IN  IF triggered.flash_start.tag = "Some"
        THEN LET decay_ms == flash_decay_ms(triggered.animation_speed)
                 flash_elapsed == F32FromInt(later - triggered.flash_start.val)
                 decay_progress == F32Min(F32Div(flash_elapsed, F32FromInt(decay_ms)),
                                          F32Lit(1))
                 decayed == F32Mul(triggered.flash_intensity,
                                   F32Sub(F32Lit(1), decay_progress))
             IN  IF F32Lt(decayed, F32Div(F32Lit(1), F32Lit(100)))
                 THEN [triggered EXCEPT !.flash_intensity = F32Zero,
                                        !.flash_start = NoResult]
                 ELSE [triggered EXCEPT !.flash_intensity = decayed]
        ELSE triggered

\* {n:02} and {n:2}: two characters, padded with '0' or ' '.
Pad2(n, fill) ==
    IF n < 10 THEN <<fill, DigitChars[n + 1]>>
    ELSE <<DigitChars[(n \div 10) + 1], DigitChars[(n % 10) + 1]>>

\* The time string of App::render: hours by %H, or by %I and %p.
time_str_of(time_format, now) ==
    IF time_format = "TwentyFourHour"
    THEN Pad2(now.hour, "0") \o <<":">> \o Pad2(now.minute, "0")
            \o <<":">> \o Pad2(now.second, "0")
    ELSE Pad2(((now.hour + 11) % 12) + 1, " ") \o <<":">> \o Pad2(now.minute, "0")
            \o <<":">> \o Pad2(now.second, "0")
            \o <<" ", IF now.hour >= 12 THEN "P" ELSE "A", "M">>


\* ColorTheme::is_dynamic
is_dynamic(theme) == theme \in {"Rainbow", "RainbowVertical"} \cup GradientThemes

\* apply_animation.  Shifting, Pulsing and Wave go through f32::sin and the
\* hue rotation; their colour is a function of the arguments they read that
\* is left uninterpreted.
apply_animation(base_color, style, speed, elapsed, x, width, flash_intensity) ==
    CASE style = "None" -> base_color
      [] style = "Shifting" ->
            [name |-> "Shifting", rgb |-> <<>>, at |-> <<base_color, elapsed, speed>>]
      [] style = "Pulsing" ->
            [name |-> "Pulsing", rgb |-> <<>>, at |-> <<base_color, elapsed, speed>>]
      [] style = "Wave" ->
            [name |-> "Wave", rgb |-> <<>>, at |-> <<base_color, elapsed, speed, x, width>>]
      [] style = "Reactive" -> apply_reactive(base_color, flash_intensity)

\* ratatui's Rect.
Rect(x, y, width, height) == [x |-> x, y |-> y, width |-> width, height |-> height]

Inside(rect, x, y) ==
    /\ x >= rect.x /\ x < rect.x + rect.width
    /\ y >= rect.y /\ y < rect.y + rect.height

\* chunk.x + chunk.width.saturating_sub(text_width) / 2
start_x_of(chunk, text_width) ==
    chunk.x + ((IF chunk.width > text_width THEN chunk.width - text_width ELSE 0) \div 2)

\* The outcomes of the base colour of character char_idx of a line: the
\* theme's colour, or color_at_position for a dynamic theme.
base_colors(self, char_idx, line_idx, width, height) ==
    IF is_dynamic(self.color_theme)
    THEN color_at_position(self.color_theme, char_idx, line_idx, width, height)
    ELSE {Some(color(self.color_theme))}

\* The character ch in its animated colour, outcomes being the outcomes of
\* its base colour.
Animated(self, ch, outcomes, char_idx, width, elapsed) ==
    [panics |-> Panic \in outcomes,
     cell |-> Styled(ch, apply_animation((CHOOSE o \in outcomes : o.tag = "Some").val,
                                         self.animation_style, self.animation_speed,
                                         elapsed, char_idx, width, self.flash_intensity))]

\* What a loop of App::render writes to the cell for character char_idx of
\* line line_idx: the character in its animated colour.
Written(self, ch, char_idx, line_idx, width, height, elapsed) ==
    Animated(self, ch, base_colors(self, char_idx, line_idx, width, height),
             char_idx, width, elapsed)

\* The mutant: the spaces of a glyph are written like its other characters.
time_cell_opaque(self, time_lines, chunk, mask, elapsed, x, y) ==
    LET height == Len(time_lines)
        width == IF time_lines = <<>> THEN 0 ELSE Len(time_lines[1])
        line_idx == y - chunk.y
        char_idx == x - start_x_of(chunk, width)
    IN  IF line_idx < 0 \/ line_idx >= height \/ y >= chunk.y + chunk.height
           \/ char_idx < 0 \/ char_idx >= Len(time_lines[line_idx + 1])
        THEN NoResult
        ELSE LET ch == time_lines[line_idx + 1][char_idx + 1]
                 is_colon == char_idx < Len(mask)
                             /\ mask[char_idx + 1]
                 should_hide == self.colon_blink /\ is_colon /\ ~is_colon_visible(elapsed)
             IN  IF x >= chunk.x + chunk.width \/ should_hide THEN NoResult
                 ELSE Some(Written(self, ch, char_idx, line_idx, width, height, elapsed))

\* The loop over time_lines at the cell (x, y): NoResult where it writes
\* nothing (no character there, a space, outside the chunk, a colon that
\* is hidden).
time_cell(self, time_lines, chunk, mask, elapsed, x, y) ==
    LET height == Len(time_lines)
        width == IF time_lines = <<>> THEN 0 ELSE Len(time_lines[1])
        line_idx == y - chunk.y
        char_idx == x - start_x_of(chunk, width)
    IN  IF line_idx < 0 \/ line_idx >= height \/ y >= chunk.y + chunk.height
           \/ char_idx < 0 \/ char_idx >= Len(time_lines[line_idx + 1])
        THEN NoResult
        ELSE LET ch == time_lines[line_idx + 1][char_idx + 1]
                 is_colon == char_idx < Len(mask)
                             /\ mask[char_idx + 1]
                 should_hide == self.colon_blink /\ is_colon /\ ~is_colon_visible(elapsed)
             IN  IF ch = " " \/ x >= chunk.x + chunk.width \/ should_hide THEN NoResult
                 ELSE Some(Written(self, ch, char_idx, line_idx, width, height, elapsed))

\* The loop over date_str at the cell (x, y).
date_cell(self, date_str, date_chunk, elapsed, x, y) ==
    LET char_idx == x - start_x_of(date_chunk, Len(date_str))
    IN  IF y # date_chunk.y \/ char_idx < 0 \/ char_idx >= Len(date_str) THEN NoResult
        ELSE LET ch == date_str[char_idx + 1]
             IN  IF ch = " " \/ x >= date_chunk.x + date_chunk.width THEN NoResult
                 ELSE Some(Written(self, ch, char_idx, 0, Len(date_str), 1, elapsed))

\* SettingsDialog::render: the area of the dialog, empty while it is hidden.
dialog_area(dialog, area) ==
    LET dialog_width == IF area.width >= 44 THEN 40
                        ELSE IF area.width > 4 THEN area.width - 4 ELSE 0
        dialog_height == IF area.height >= 21 THEN 19
                         ELSE IF area.height > 2 THEN area.height - 2 ELSE 0
    IN  IF ~dialog.visible THEN Rect(0, 0, 0, 0)
        ELSE Rect(area.x + ((area.width - dialog_width) \div 2),
                  area.y + ((area.height - dialog_height) \div 2),
                  dialog_width, dialog_height)

\* The cell (x, y) after App::render: the dialog lies over the help line,
\* the help line over the date, the date over the time glyphs and those
\* over the background; date and glyph are what the two loops write to the
\* cell.
layer_cell(date, glyph, below, over, help, accent, x, y) ==
    IF Inside(over, x, y) THEN Styled("dialog", accent)
    ELSE IF Inside(help, x, y) THEN Styled("help", accent)
    ELSE IF date.tag = "Some" THEN date.val.cell
    ELSE IF glyph.tag = "Some" THEN glyph.val.cell
    ELSE below

\* The end of App::render: writes holds what the two loops write to each
\* cell, over the area of the dialog.
render_cells(flashed, drawn, writes, over, time_lines, mask, now, elapsed, later, area, layout) ==
    {Some([self |-> flashed,
           drawn |-> [elapsed |-> elapsed, now |-> now, later |-> later, area |-> area,
                      layout |-> layout,
                      background |-> drawn,
                      time_lines |-> time_lines,
                      colon_positions |-> mask,
                      cells |-> [y \in 1..area.height |->
                                   [x \in 1..area.width |->
                                      layer_cell(writes[y][x].date, writes[y][x].glyph,
                                                 IF drawn = <<>> THEN Blank
                                                 ELSE drawn[y][x],
                                                 over, layout.help,
                                                 color(flashed.color_theme),
                                                 x - 1, y - 1)]]]])}
    \cup (IF \E y \in 1..area.height, x \in 1..area.width :
                \E written \in {writes[y][x].date, writes[y][x].glyph} :
                   written.tag = "Some" /\ written.val.panics
          THEN {Panic} ELSE {})

\* App::render from the loop over time_lines on: drawn is what the
\* background drew, mask the colon_positions.
render_layers(flashed, drawn, time_lines, mask, now, elapsed, later, area, layout) ==
    render_cells(flashed, drawn,
                 [y \in 1..area.height |->
                    [x \in 1..area.width |->
                       [glyph |-> time_cell(flashed, time_lines, layout.time, mask,
                                            elapsed, x - 1, y - 1),
                        date |-> date_cell(flashed, now.date_str, layout.date,
                                           elapsed, x - 1, y - 1)]]],
                 dialog_area(flashed.settings_dialog, area),
                 time_lines, mask, now, elapsed, later, area, layout)

\* App::render from the time string to the colon mask: found is the font
\* get_or_default returned.
render_time(flashed, drawn, found, time_str, now, elapsed, later, area, layout) ==
    IF found.tag = "Panic" THEN {Panic}
    ELSE LET time_lines == render_text(found.val, time_str)
         IN  render_layers(flashed, drawn, time_lines,
                           IF flashed.colon_blink
                           THEN colon_positions(found.val, time_str, time_lines) ELSE <<>>,
                           now, elapsed, later, area, layout)

\* App::render on a frame of the given area, split by the layout into the
\* chunks of the time, the date and the help line: the outcomes of the
\* call, each a panic or the App after the call with what was drawn.  The
\* cells of the help line and of the dialog are widgets of the library,
\* marked by their name.
app_render(self, now, elapsed, instant, later, area, layout) ==
    LET drawn_bg == render(self.background_state, self.background_style,
                           area.width, area.height, elapsed, self.animation_speed)
    IN  IF drawn_bg.drawn.tag = "Panic" THEN {Panic}
        ELSE render_time(update_flash([self EXCEPT !.background_state = drawn_bg.state],
                                      now, instant, later),
                         drawn_bg.drawn.val,
                         get_or_default(self.font_registry, self.current_font),
                         time_str_of(self.time_format, now),
                         now, elapsed, later, area, layout)


(***************************************************************************)
(* sigye: the settings dialog and the key handlers of the App.             *)
(***************************************************************************)
SettingsFields ==
    <<"Font", "Color", "TimeFormat", "Animation", "Speed", "Background", "ColonBlink">>

\* SettingsField::next and SettingsField::prev
SettingsFieldNext(v) == CycleNext(SettingsFields, v)

SettingsFieldPrev(v) == CyclePrev(SettingsFields, v)

\* SettingsDialog::new
SettingsDialogNew(available_fonts) ==
    [visible |-> FALSE, selected_field |-> "Font", font_index |-> 0,
     available_fonts |-> available_fonts,
     color_theme |-> "Cyan", time_format |-> "TwentyFourHour",
     animation_style |-> "None", animation_speed |-> "Medium",
     background_style |-> "None", colon_blink |-> FALSE,
     original_font_index |-> 0,
     original_color_theme |-> "Cyan", original_time_format |-> "TwentyFourHour",
     original_animation_style |-> "None", original_animation_speed |-> "Medium",
     original_background_style |-> "None", original_colon_blink |-> FALSE]

\* SettingsDialog::open
open(dialog, font_name, theme, time_format, style, speed, blink, background) ==
    LET at == Position(dialog.available_fonts, font_name)
    IN  [dialog EXCEPT !.visible = TRUE, !.selected_field = "Font",
                       !.color_theme = theme, !.time_format = time_format,
                       !.animation_style = style, !.animation_speed = speed,
                       !.background_style = background, !.colon_blink = blink,
                       !.font_index = at,
                       !.original_font_index = at,
                       !.original_color_theme = theme,
                       !.original_time_format = time_format,
                       !.original_animation_style = style,
                       !.original_animation_speed = speed,
                       !.original_background_style = background,
                       !.original_colon_blink = blink]

\* SettingsDialog::close
close(dialog) == [dialog EXCEPT !.visible = FALSE]

\* available_fonts.get(idx).unwrap_or("Standard")
FontAt(dialog, idx) ==
    IF idx < Len(dialog.available_fonts) THEN At(dialog.available_fonts, idx)
    ELSE "Standard"

original_font(dialog) == FontAt(dialog, dialog.original_font_index)

selected_font(dialog) == FontAt(dialog, dialog.font_index)

next_field(dialog) == [dialog EXCEPT !.selected_field = SettingsFieldNext(@)]

prev_field(dialog) == [dialog EXCEPT !.selected_field = SettingsFieldPrev(@)]

\* SettingsDialog::next_value
next_value(dialog) ==
    CASE dialog.selected_field = "Font" ->
            IF dialog.available_fonts # <<>>
            THEN [dialog EXCEPT !.font_index = (@ + 1) % Len(dialog.available_fonts)]
            ELSE dialog
      [] dialog.selected_field = "Color" ->
            [dialog EXCEPT !.color_theme = ColorThemeNext(@)]
      [] dialog.selected_field = "TimeFormat" ->
            [dialog EXCEPT !.time_format = toggle(@)]
      [] dialog.selected_field = "Animation" ->
            [dialog EXCEPT !.animation_style = AnimationStyleNext(@)]
      [] dialog.selected_field = "Speed" ->
            [dialog EXCEPT !.animation_speed = AnimationSpeedNext(@)]
      [] dialog.selected_field = "Background" ->
            [dialog EXCEPT !.background_style = BackgroundStyleNext(@)]
      [] dialog.selected_field = "ColonBlink" ->
            [dialog EXCEPT !.colon_blink = ~@]

\* SettingsDialog::prev_value
prev_value(dialog) ==
    CASE dialog.selected_field = "Font" ->
            IF dialog.available_fonts # <<>>
            THEN [dialog EXCEPT !.font_index =
                     IF @ = 0 THEN Len(dialog.available_fonts) - 1 ELSE @ - 1]
            ELSE dialog
      [] dialog.selected_field = "Color" ->
            [dialog EXCEPT !.color_theme = ColorThemePrev(@)]
      [] dialog.selected_field = "TimeFormat" ->
            [dialog EXCEPT !.time_format = toggle(@)]
      [] dialog.selected_field = "Animation" ->
            [dialog EXCEPT !.animation_style = AnimationStylePrev(@)]
      [] dialog.selected_field = "Speed" ->
            [dialog EXCEPT !.animation_speed = AnimationSpeedPrev(@)]
      [] dialog.selected_field = "Background" ->
            [dialog EXCEPT !.background_style = BackgroundStylePrev(@)]
      [] dialog.selected_field = "ColonBlink" ->
            [dialog EXCEPT !.colon_blink = ~@]

\* App::quit
quit(self) == [self EXCEPT !.running = FALSE]

\* App::apply_preview
apply_preview(self) ==
    [self EXCEPT !.current_font = selected_font(self.settings_dialog),
                 !.color_theme = self.settings_dialog.color_theme,
                 !.time_format = self.settings_dialog.time_format,
                 !.animation_style = self.settings_dialog.animation_style,
                 !.animation_speed = self.settings_dialog.animation_speed,
                 !.colon_blink = self.settings_dialog.colon_blink,
                 !.background_style = self.settings_dialog.background_style]

\* App::open_settings
open_settings(self) ==
    [self EXCEPT !.settings_dialog =
        open(@, self.current_font, self.color_theme, self.time_format,
             self.animation_style, self.animation_speed, self.colon_blink,
             self.background_style)]

\* App::save_settings.  written tells whether Config::save could write the
\* file; config_file is the file's content, carried along with the App.
save_settings(self, written) ==
    LET config == [font_name |-> self.current_font,
                   color_theme |-> self.color_theme,
                   time_format |-> self.time_format,
                   animation_style |-> self.animation_style,
                   animation_speed |-> self.animation_speed,
                   colon_blink |-> self.colon_blink,
                   background_style |-> self.background_style]
    IN  [self EXCEPT !.config = config,
                     !.config_file = IF written THEN Some(config) ELSE @,
                     !.settings_dialog = close(@)]

\* App::cancel_settings
cancel_settings(self) ==
    [self EXCEPT !.current_font = original_font(self.settings_dialog),
                 !.color_theme = self.settings_dialog.original_color_theme,
                 !.time_format = self.settings_dialog.original_time_format,
                 !.animation_style = self.settings_dialog.original_animation_style,
                 !.animation_speed = self.settings_dialog.original_animation_speed,
                 !.colon_blink = self.settings_dialog.original_colon_blink,
                 !.background_style = self.settings_dialog.original_background_style,
                 !.settings_dialog = close(@)]

\* A key press: its code (the character for KeyCode::Char) and whether
\* the modifiers are exactly CONTROL.
Key(code, control) == [code |-> code, control |-> control]

\* App::handle_settings_key
handle_settings_key(self, key, written) ==
    CASE key.code = "Esc" -> cancel_settings(self)
      [] key.code = "Enter" -> save_settings(self, written)
      [] key.code \in {"Up", "k"} ->
            [self EXCEPT !.settings_dialog = prev_field(@)]
      [] key.code \in {"Down", "j"} ->
            [self EXCEPT !.settings_dialog = next_field(@)]
      [] key.code \in {"Left", "h"} ->
            apply_preview([self EXCEPT !.settings_dialog = prev_value(@)])
      [] key.code \in {"Right", "l"} ->
            apply_preview([self EXCEPT !.settings_dialog = next_value(@)])
      [] OTHER -> self

\* App::on_key_event
on_key_event(self, key, written) ==
    IF self.settings_dialog.visible THEN handle_settings_key(self, key, written)
    ELSE IF key.code \in {"Esc", "q"} \/ (key.control /\ key.code \in {"c", "C"})
    THEN quit(self)
    ELSE CASE key.code = "t" -> [self EXCEPT !.time_format = toggle(@)]
           [] key.code = "c" -> [self EXCEPT !.color_theme = ColorThemeNext(@)]
           [] key.code = "a" -> [self EXCEPT !.animation_style = AnimationStyleNext(@)]
           [] key.code = "b" -> [self EXCEPT !.background_style = BackgroundStyleNext(@)]
           [] key.code = "s" -> open_settings(self)
           [] OTHER -> self

\* App::handle_crossterm_events: the poll times out, or reads a key press
\* or an event of another kind.
handle_crossterm_events(self, event, written) ==
    IF event.tag = "Some" /\ event.val.code # "Other"
    THEN on_key_event(self, event.val, written)
    ELSE self


(***************************************************************************)
(* The main loop, App::run: draw a frame, then wait up to 100 ms for an    *)
(* event and handle it, until running is false.  run holds the position in *)
(* the loop (at), the event read last, the number of key presses read, the *)
(* milliseconds since animation_start (ms) and the seven settings as they  *)
(* were when the dialog was opened last (opened).  frame holds what the    *)
(* last App::render call drew.                                             *)
(***************************************************************************)
\* The fonts of the registry, in the order of list_fonts (sorted by name).
InstalledFonts == <<"Mini", "Standard">>

\* A font of height 1 for the characters of a time string: a colon is one
\* column wide, every other glyph a blank column and the character.
ClockChars == {" ", ":", "A", "P", "M"} \cup {DigitChars[i] : i \in 1..10}

ClockFont(name) ==
    [name |-> name, height |-> 1,
     chars |-> [ch \in ClockChars |->
                  << IF ch = ":" THEN <<":">> ELSE IF ch = " " THEN <<" ", " ">>
                     ELSE <<" ", ch>> >>]]

\* Config::default()
ConfigDefault ==
    [font_name |-> "Standard", color_theme |-> "Cyan",
     time_format |-> "TwentyFourHour", animation_style |-> "None",
     animation_speed |-> "Medium", colon_blink |-> FALSE,
     background_style |-> "None"]

\* Config::load: the content of the file, the defaults without one.
load(config_file) == IF config_file.tag = "Some" THEN config_file.val ELSE ConfigDefault

\* App::new, with the wall clock at that moment.
AppNew(config_file, now) ==
    LET config == load(config_file)
    IN  [running |-> FALSE,
         time_format |-> config.time_format,
         color_theme |-> config.color_theme,
         animation_style |-> config.animation_style,
         animation_speed |-> config.animation_speed,
         colon_blink |-> config.colon_blink,
         background_style |-> config.background_style,
         current_font |-> config.font_name,
         font_registry |-> [name \in {InstalledFonts[i] : i \in 1..Len(InstalledFonts)} |->
                              ClockFont(name)],
         settings_dialog |-> SettingsDialogNew(InstalledFonts),
         config |-> config,
         config_file |-> config_file,
         last_second |-> now.second,
         last_minute |-> now.minute,
         last_hour |-> now.hour,
         flash_intensity |-> F32Zero,
         flash_start |-> NoResult,
         background_state |-> BackgroundNew]

\* The fields of the App held by variables of their own.
OwnFields ==
    {"color_theme", "animation_style", "background_style", "animation_speed",
     "background_state"}

\* The App as one record.
Self ==
    [k \in DOMAIN app \cup OwnFields |->
        CASE k = "color_theme" -> color_theme
          [] k = "animation_style" -> animation_style
          [] k = "background_style" -> background_style
          [] k = "animation_speed" -> animation_speed
          [] k = "background_state" -> bg
          [] OTHER -> app[k]]

\* The App becomes self.
Becomes(self) ==
    /\ color_theme' = self.color_theme
    /\ animation_style' = self.animation_style
    /\ background_style' = self.background_style
    /\ animation_speed' = self.animation_speed
    /\ bg' = self.background_state
    /\ app' = [k \in DOMAIN self \ OwnFields |-> self[k]]

\* The seven settings.
Settings(self) ==
    [font_name |-> self.current_font, color_theme |-> self.color_theme,
     time_format |-> self.time_format, animation_style |-> self.animation_style,
     animation_speed |-> self.animation_speed, colon_blink |-> self.colon_blink,
     background_style |-> self.background_style]

\* The wall clock: the hour, minute and second of Local::now() and the date
\* as "%A, %B %d, %Y" formats it.
Clock(hour, minute, second) ==
    [hour |-> hour, minute |-> minute, second |-> second,
     date_str |-> <<"F", "r", "i", "d", "a", "y", ",", " ", "M", "a", "y", " ",
                    "0", "1", ",", " ", "2", "0", "2", "6">>]

\* The terminal: the area of the frame and the chunks Layout::vertical
\* splits it into for the time, the date and the help line.
View(width, height, time, date, help) ==
    [area |-> Rect(0, 0, width, height),
     layout |-> [time |-> time, date |-> date, help |-> help]]

\* App::new, followed by self.running = true at the head of App::run.
InitApp(config_files, now) ==
    /\ \E config_file \in config_files :
          \E self \in {[AppNew(config_file, now) EXCEPT !.running = TRUE]} :
             /\ color_theme = self.color_theme
             /\ animation_style = self.animation_style
             /\ background_style = self.background_style
             /\ animation_speed = self.animation_speed
             /\ bg = self.background_state
             /\ app = [k \in DOMAIN self \ OwnFields |-> self[k]]
    /\ run = [at |-> "draw", event |-> NoResult, keys |-> 0, ms |-> 0, opened |-> NoResult]
    /\ frame = NoResult
    /\ bg_frame = NoResult
    /\ ClockIdle /\ ColorIdle /\ ParseIdle /\ RenderIdle
    /\ RegistryIdle /\ ReactiveIdle /\ PositionIdle

NotApp == <<clockVars, colorVars, parseVars, renderVars, registryVars,
            reactiveVars, positionVars, bg_frame>>

\* terminal.draw(|frame| self.render(frame)): a panic ends the program.
Draw(clocks, deltas, lags, views, max_ms) ==
    /\ run.at = "draw"
    /\ \E now \in clocks, delta \in deltas, lag \in lags, view \in views :
          /\ run.ms + delta <= max_ms
          /\ \E outcome \in app_render(Self, now, run.ms + delta, run.ms + delta,
                                       run.ms + delta + lag, view.area, view.layout) :
                IF outcome.tag = "Panic"
                THEN /\ frame' = Panic
                     /\ run' = [run EXCEPT !.at = "done", !.ms = @ + delta]
                     /\ UNCHANGED <<cycleVars, bg, app>>
                ELSE /\ frame' = Some(outcome.val.drawn)
                     /\ run' = [run EXCEPT !.at = "events", !.ms = @ + delta]
                     /\ Becomes(outcome.val.self)
    /\ UNCHANGED NotApp

\* self.handle_crossterm_events(), then the test of self.running.
HandleEvents(events, max_keys) ==
    /\ run.at = "events"
    /\ \E event \in events, written \in BOOLEAN :
          /\ event.tag = "Some" => run.keys < max_keys
          /\ \E self \in {handle_crossterm_events(Self, event, written)} :
                /\ Becomes(self)
                /\ run' = [run EXCEPT
                             !.at = IF self.running THEN "draw" ELSE "done",
                             !.event = event,
                             !.keys = IF event.tag = "Some" THEN @ + 1 ELSE @,
                             !.opened = IF self.settings_dialog.visible
                                           /\ ~app.settings_dialog.visible
                                        THEN Some(Settings(Self)) ELSE @]
    /\ UNCHANGED frame
    /\ UNCHANGED NotApp


(***************************************************************************)
(* SpecFlash: frames on an empty terminal while the wall clock moves; no   *)
(* key is pressed.                                                         *)
(***************************************************************************)
MaxFlashMs == 400

\* The configuration files: one for each animation speed.
FlashConfigs ==
    {Some([ConfigDefault EXCEPT !.animation_speed = speed,
                                !.animation_style = "Reactive"]) :
        speed \in AnimationSpeed}

FlashClocks == {Clock(10, 0, 0), Clock(10, 0, 1), Clock(10, 1, 0), Clock(11, 1, 0)}

\* Milliseconds from one frame to the next, and from the start of a flash
\* to the reading of its age in the same frame.
FlashDeltas == {100, 200}

FlashLags == {0, 1}

EmptyView == View(0, 0, Rect(0, 0, 0, 0), Rect(0, 0, 0, 0), Rect(0, 0, 0, 0))

InitFlash == InitApp(FlashConfigs, Clock(10, 0, 0))

DrawFlash == Draw(FlashClocks, FlashDeltas, FlashLags, {EmptyView}, MaxFlashMs)

WaitFlash == HandleEvents({NoResult}, 0)

NextFlash == DrawFlash \/ WaitFlash

SpecFlash == InitFlash /\ [][NextFlash]_vars

\* The intensity a frame starts from: 1.0 on a change of hour, otherwise
\* 0.7 on a change of minute, otherwise 0.3 on a change of second, otherwise
\* the intensity left by the frame before.
FlashBase(now) ==
    IF now.hour # app.last_hour THEN F32Lit(1)
    ELSE IF now.minute # app.last_minute THEN F32Div(F32Lit(7), F32Lit(10))
    ELSE IF now.second # app.last_second THEN F32Div(F32Lit(3), F32Lit(10))
    ELSE app.flash_intensity

InUnit(v) == F32Ge(v, F32Zero) /\ F32Le(v, F32Lit(1))

\* C26: the flash intensity of every frame lies in [0, 1]; a change of hour
\* sets it to 1.0, otherwise a change of minute to 0.7, otherwise a change
\* of second to 0.3; the frame multiplies it by a decay factor in [0, 1]
\* (and drops a product below 0.01 to 0); it is exactly 0 whenever
\* flash_start is None.
C26_FlashInUnit ==
    [][frame' # frame /\ frame'.tag = "Some" =>
          \A base \in {FlashBase(frame'.val.now)} :
             /\ InUnit(app'.flash_intensity)
             /\ app'.flash_start.tag = "None" => app'.flash_intensity = F32Zero
             /\ app.flash_start.tag = "None" => app.flash_intensity = F32Zero
             /\ F32Le(app'.flash_intensity, base)
             /\ \/ app'.flash_start.tag = "None"
                \/ \E factor \in {F32Sub(F32Lit(1),
                                    F32Min(F32Div(F32FromInt(frame'.val.later
                                                               - app'.flash_start.val),
                                                  F32FromInt(flash_decay_ms(animation_speed))),
                                           F32Lit(1)))} :
                      /\ InUnit(factor)
                      /\ app'.flash_intensity = F32Mul(base, factor)
             /\ (base # app.flash_intensity /\ frame'.val.later = frame'.val.elapsed)
                   => app'.flash_intensity = base]_vars

\* C26 witness: 100 ms after a change of minute at Medium speed the flash of
\* 0.7 has decayed to 0.7 * 0.75.
C26_Witness ==
    /\ frame.tag = "Some"
    /\ animation_speed = "Medium"
    /\ app.flash_start = Some(100)
    /\ frame.val.later = 200
    /\ app.flash_intensity = F32Mul(F32Div(F32Lit(7), F32Lit(10)),
                                    F32Div(F32Lit(3), F32Lit(4)))


(***************************************************************************)
(* SpecKeys: key presses on an empty terminal while the wall clock stands  *)
(* still.                                                                  *)
(***************************************************************************)
MaxKeys == 4

\* The configuration files: none, or one with settings that are not the
\* defaults, its font installed or not.
KeyConfigs ==
    {NoResult} \cup
    {Some([font_name |-> name, color_theme |-> "Rainbow",
           time_format |-> "TwelveHour", animation_style |-> "Reactive",
           animation_speed |-> "Fast", colon_blink |-> TRUE,
           background_style |-> "Starfield"]) : name \in {"Mini", "Retired"}}

\* What the poll returns: nothing within 100 ms, or an event.
KeyEvents ==
    {NoResult} \cup
    {Some(Key(code, FALSE)) :
        code \in {"q", "Esc", "c", "b", "s", "Enter", "Up", "Down", "Left", "Right",
                  "Other"}} \cup
    {Some(Key("c", TRUE))}

InitKeys == InitApp(KeyConfigs, Clock(10, 0, 0))

DrawKeys == Draw({Clock(10, 0, 0)}, {100}, {0}, {EmptyView}, 100 * (2 * MaxKeys + 2))

PressKeys == HandleEvents(KeyEvents, MaxKeys)

NextKeys == DrawKeys \/ PressKeys

SpecKeys == InitKeys /\ [][NextKeys]_vars

\* The event read in the step is a quit key: q, Esc or Ctrl+C.
QuitKeyRead ==
    /\ run.at = "events" /\ run'.at # "events"
    /\ run'.event.tag = "Some"
    /\ \/ run'.event.val.code \in {"q", "Esc"}
       \/ run'.event.val.control /\ run'.event.val.code \in {"c", "C"}

\* C24: whenever a quit key (q, Esc or Ctrl+C) is read, in any state of the
\* application, running becomes false and the loop ends without drawing
\* another frame.
C24_QuitKeyEndsLoop ==
    [][QuitKeyRead => (~app'.running /\ run'.at = "done")]_vars

\* C25: Esc in the settings dialog, whatever keys were pressed since it was
\* opened and whatever the font name was, restores the seven settings to
\* their values at the opening, closes the dialog and leaves the
\* configuration and its file unchanged.
C25_CancelRestores ==
    [][(run.at = "events" /\ run'.at # "events" /\ app.settings_dialog.visible
        /\ run'.event = Some(Key("Esc", FALSE)))
       => /\ Settings(Self)' = run.opened.val
          /\ ~app'.settings_dialog.visible
          /\ app'.config = app.config
          /\ app'.config_file = app.config_file]_vars


(***************************************************************************)
(* SpecFrame: frames on a terminal of 8 columns, with every background,    *)
(* the colon blinking or not, and the settings dialog opened or not.       *)
(***************************************************************************)
MaxFrameMs == 1000

\* The colour theme and the animation style of a configuration.
FrameLooks == {<<"Cyan", "None">>, <<"Rainbow", "Wave">>, <<"Cyan", "Reactive">>}

FrameConfigs ==
    {Some([ConfigDefault EXCEPT !.color_theme = look[1], !.animation_style = look[2],
                                !.background_style = background,
                                !.colon_blink = blink]) :
        look \in FrameLooks, background \in BackgroundStyle, blink \in BOOLEAN}

\* Three rows: the time, the date and the help line.
FrameViews == {View(8, 3, Rect(0, 0, 8, 1), Rect(0, 1, 8, 1), Rect(0, 2, 8, 1))}

FrameClocks == {Clock(10, 0, 0), Clock(10, 0, 1)}

\* Half a blink period from one frame to the next, or no time at all.
FrameDeltas500 == {0, 500}

InitFrame == InitApp(FrameConfigs, Clock(10, 0, 0))

DrawFrame == Draw(FrameClocks, FrameDeltas500, {0}, FrameViews, MaxFrameMs)

OpenDialog == HandleEvents({NoResult, Some(Key("s", FALSE))}, 1)

NextFrame == DrawFrame \/ OpenDialog

SpecFrame == InitFrame /\ [][NextFrame]_vars

\* The character of the rendered time, and of the date, that falls on the
\* cell (x, y) of the frame f: its index in the line and itself, a space
\* where there is none.
GlyphOn(f, x, y) ==
    LET line_idx == y - f.layout.time.y
        width == IF f.time_lines = <<>> THEN 0 ELSE Len(f.time_lines[1])
        idx == x - start_x_of(f.layout.time, width)
        there == /\ Inside(f.layout.time, x, y)
                 /\ line_idx < Len(f.time_lines)
                 /\ idx >= 0 /\ idx < Len(f.time_lines[line_idx + 1])
    IN  [idx |-> idx, line |-> line_idx, width |-> width, height |-> Len(f.time_lines),
         ch |-> IF there THEN f.time_lines[line_idx + 1][idx + 1] ELSE " "]

DateOn(f, x, y) ==
    LET idx == x - start_x_of(f.layout.date, Len(f.now.date_str))
        there == Inside(f.layout.date, x, y) /\ idx >= 0 /\ idx < Len(f.now.date_str)
    IN  [idx |-> idx, line |-> 0, width |-> Len(f.now.date_str), height |-> 1,
         ch |-> IF there THEN f.now.date_str[idx + 1] ELSE " "]

\* The cell holds the character in the colour animated at the given time.
Shows(cell, on, elapsed, flash) ==
    /\ cell.ch = on.ch
    /\ \E base \in color_at_position(color_theme, on.idx, on.line, on.width, on.height) :
          /\ base.tag = "Some"
          /\ cell.fg = apply_animation(IF is_dynamic(color_theme) THEN base.val
                                       ELSE color(color_theme),
                                       animation_style, animation_speed, elapsed,
                                       on.idx, on.width, flash)

\* The frame drawn by the step: the background of its elapsed_ms lies under
\* everything; the dialog and the help line lie on top; below them a date
\* or time character that is not a space (and, if gated is true, not a
\* colon column hidden by the blink gate at the same elapsed_ms) shows in
\* the colour animated at the same elapsed_ms; every other cell shows the
\* background.
FrameLayered(gated) ==
    \A f \in {frame'.val} :
       /\ f.background = render(bg, background_style, f.area.width, f.area.height,
                                f.elapsed, animation_speed).drawn.val
       /\ \A x \in 0..(f.area.width - 1), y \in 0..(f.area.height - 1) :
             LET cell == f.cells[y + 1][x + 1]
                 under == IF f.background = <<>> THEN Blank ELSE f.background[y + 1][x + 1]
                 glyph == GlyphOn(f, x, y)
                 date == DateOn(f, x, y)
                 hidden == /\ gated
                           /\ app.colon_blink
                           /\ glyph.idx >= 0 /\ glyph.idx < Len(f.colon_positions)
                           /\ f.colon_positions[glyph.idx + 1]
                           /\ ~is_colon_visible(f.elapsed)
             IN  IF Inside(dialog_area(app.settings_dialog, f.area), x, y)
                 THEN cell.ch = "dialog"
                 ELSE IF Inside(f.layout.help, x, y) THEN cell.ch = "help"
                 ELSE IF date.ch # " "
                 THEN Shows(cell, date, f.elapsed, app'.flash_intensity)
                 ELSE IF glyph.ch # " " /\ ~hidden
                 THEN Shows(cell, glyph, f.elapsed, app'.flash_intensity)
                 ELSE cell = under

\* C23 as stated: in every frame the background is drawn before the time
\* glyphs, the date and the dialog; glyph and date cells that are not spaces
\* overwrite the background cell and space cells leave it untouched; the
\* background, the glyph colouring and the date colouring use one
\* elapsed_ms.
C23_GlyphsOverBackground ==
    [][(frame' # frame /\ frame'.tag = "Some") => FrameLayered(FALSE)]_vars

\* C23 amended: as stated, a colon column hidden by the blink gate (at the
\* same elapsed_ms) leaving the background cell untouched like a space.
C23_ShownGlyphsOverBackground ==
    [][(frame' # frame /\ frame'.tag = "Some") => FrameLayered(TRUE)]_vars

\* C23 witness: half a second in, over the gradient background and with the
\* dialog open, "10:00:00" shows '1' in column 1, the background in column 0
\* (a space of the glyph) and in column 4 (the hidden colon); the date
\* shows 'F' in column 0 and the background in column 7 (its space); the
\* dialog covers the columns 2..5 of the date.
C23_Witness ==
    /\ frame.tag = "Some"
    /\ frame.val.elapsed = 500
    /\ frame.val.area.height = 3
    /\ background_style = "GradientWave"
    /\ app.colon_blink /\ app.time_format = "TwentyFourHour"
    /\ app.settings_dialog.visible
    /\ frame.val.cells[1][1].ch = "gradient"
    /\ frame.val.cells[1][2].ch = "1"
    /\ frame.val.cells[1][5].ch = "gradient"
    /\ frame.val.colon_positions[5]
    /\ frame.val.cells[2][1].ch = "F"
    /\ frame.val.cells[2][8].ch = "gradient"
    /\ frame.val.cells[2][3].ch = "dialog"
    /\ frame.val.cells[3][1].ch = "help"

=============================================================================
